---- MODULE Spec2Model ----
(***************************************************************************)
(* Line-existence search server: the matching engines of                   *)
(* src/search/algorithms/*.py over a corpus file, and the per-connection   *)
(* protocol handlers of src/server.py and src/server/server.py.            *)
(*                                                                         *)
(* Bytes and characters are integers (byte values / code points); a str or *)
(* a bytes object is a sequence of them.                                   *)
(***************************************************************************)
EXTENDS Integers, Sequences, FiniteSets, TLC

\* ------------------------------------------------------------------------
\* Bounds of the model
\* ------------------------------------------------------------------------
MaxLines == 2
MaxWordLen == 2
MaxSends == 2
MaxMtime == 2

\* ------------------------------------------------------------------------
\* Byte values
\* ------------------------------------------------------------------------
NUL == 0
TAB == 9
LF == 10
VT == 11
FF == 12
CR == 13
SP == 32
UpperA == 65
UpperZ == 90
CaseOffset == 32
LowerA == 97
LowerX == 120
AsciiLimit == 128
BAD == 255
REPLACEMENT == 65533

\* further letters, by their distance from 'A' and 'a'
UpperB == UpperA + 1

UpperC == UpperA + 2

UpperD == UpperA + 3

LowerB == LowerA + 1

\* bytes.rstrip() / str.rstrip() without argument strip ASCII whitespace
Whitespace == {TAB, LF, VT, FF, CR, SP}

\* ------------------------------------------------------------------------
\* Sequence helpers
\* ------------------------------------------------------------------------
Range(s) == {s[i] : i \in 1..Len(s)}

Contains(s, x) == \E i \in 1..Len(s) : s[i] = x

\* index of the first occurrence of x in s (0 when absent)
FirstIndex(s, x) == IF Contains(s, x) THEN CHOOSE i \in 1..Len(s) : s[i] = x /\ \A j \in 1..(i-1) : s[j] # x ELSE 0

RECURSIVE RStripSet(_, _)
\* bytes.rstrip(chars): drop trailing bytes that are in chars
RStripSet(s, chars) == IF Len(s) > 0 /\ s[Len(s)] \in chars THEN RStripSet(SubSeq(s, 1, Len(s) - 1), chars) ELSE s

RECURSIVE LStripSet(_, _)
LStripSet(s, chars) == IF Len(s) > 0 /\ s[1] \in chars THEN LStripSet(SubSeq(s, 2, Len(s)), chars) ELSE s

\* line.rstrip()
RStrip(s) == RStripSet(s, Whitespace)

\* str.strip()
Strip(s) == LStripSet(RStripSet(s, Whitespace), Whitespace)

\* str.lower() on the modelled (ASCII) characters
LowerChar(c) == IF c >= UpperA /\ c <= UpperZ THEN c + CaseOffset ELSE c

Lower(s) == [i \in 1..Len(s) |-> LowerChar(s[i])]

\* bytes.decode('utf-8') succeeds; the model has no multi-byte sequences,
\* every byte >= 128 it uses is an invalid start byte
ValidUtf8(b) == \A i \in 1..Len(b) : b[i] < AsciiLimit

\* bytes.decode('utf-8', errors='replace')
DecodeReplace(b) == [i \in 1..Len(b) |-> IF b[i] < AsciiLimit THEN b[i] ELSE REPLACEMENT]

\* Python compares sequences lexicographically (str < str)
RECURSIVE StrLess(_, _)
StrLess(s, t) ==
  IF Len(t) = 0 THEN FALSE
  ELSE IF Len(s) = 0 THEN TRUE
  ELSE IF s[1] # t[1] THEN s[1] < t[1]
  ELSE StrLess(Tail(s), Tail(t))

\* a Python value with its type: a str never equals a bytes object
PyStr(s) == [ty |-> "str", v |-> s]

PyBytes(b) == [ty |-> "bytes", v |-> b]

PyEq(x, y) == x.ty = y.ty /\ x.v = y.v

\* ------------------------------------------------------------------------
\* Reading the corpus file
\* ------------------------------------------------------------------------
RECURSIVE BinaryLines(_)
\* `for line in file` on a file opened 'rb': pieces ending in LF, the
\* terminator kept, plus a last unterminated piece when there is one
BinaryLines(content) ==
  IF Len(content) = 0 THEN << >>
  ELSE LET k == FirstIndex(content, LF)
       IN IF k = 0 THEN << content >>
          ELSE << SubSeq(content, 1, k) >> \o BinaryLines(SubSeq(content, k + 1, Len(content)))

RECURSIVE SplitLF(_)
\* str.split('\n'): always at least one piece, '' after a final newline
SplitLF(s) ==
  LET k == FirstIndex(s, LF)
  IN IF k = 0 THEN << s >>
     ELSE << SubSeq(s, 1, k - 1) >> \o SplitLF(SubSeq(s, k + 1, Len(s)))

RECURSIVE UniversalNewlines(_)
\* text-mode read: '\r\n' and '\r' are translated to '\n'
UniversalNewlines(s) ==
  IF Len(s) = 0 THEN << >>
  ELSE IF s[1] = CR
       THEN IF Len(s) > 1 /\ s[2] = LF
            THEN << LF >> \o UniversalNewlines(SubSeq(s, 3, Len(s)))
            ELSE << LF >> \o UniversalNewlines(Tail(s))
       ELSE << s[1] >> \o UniversalNewlines(Tail(s))


RECURSIVE EncodeUtf8(_)
\* str.encode('utf-8'): ASCII is one byte, U+FFFD is EF BF BD
EncodeUtf8(s) ==
  IF Len(s) = 0 THEN << >>
  ELSE (IF s[1] < AsciiLimit THEN << s[1] >> ELSE << 239, 191, 189 >>) \o EncodeUtf8(Tail(s))

\* ------------------------------------------------------------------------
\* Engines (src/search/algorithms/*.py)
\* ------------------------------------------------------------------------
Algorithms == {"simple", "inmemory", "binary", "hash", "regex", "bloom", "boyermoore", "rabinkarp", "kmp", "grep"}

\* the constructors that take a case_sensitive keyword
AcceptsCaseSensitive(algo) == algo \in {"binary", "regex", "bloom", "rabinkarp", "kmp", "grep"}

\* RabinKarp.__init__ defaults
RK_BASE == 256
RK_PRIME == 101

\* BloomFilterSearch defaults, error rate in parts per million
BLOOM_CAPACITY == 1000000
BLOOM_ERROR_PPM == 1000

\* size of the bit array standing for the one pybloom_live allocates
BloomSlots == 7

RECURSIVE CalculateHash(_, _, _)
\* RabinKarp._calculate_hash, folded from the last character back:
\* hash(s[0..n-1]) = (hash(s[0..n-2]) * base + ord(s[n-1])) % prime
CalculateHash(string, length, base_prime) ==
  IF length = 0 THEN 0
  ELSE (CalculateHash(string, length - 1, base_prime) * base_prime[1] + string[length]) % base_prime[2]

\* the slot pybloom_live hashes a key to (stand-in for its hash functions)
BloomSlot(key) == CalculateHash(key, Len(key), << 31, BloomSlots >>)

BloomFilter(capacity, error_ppm) == [capacity |-> capacity, error_rate |-> error_ppm, bits |-> {}]

BloomAdd(bloom, key) == [bloom EXCEPT !.bits = @ \cup {BloomSlot(key)}]

BloomContains(bloom, key) == BloomSlot(key) \in bloom.bits

\* SearchAlgorithm.__init__ and the attributes the subclasses add
NewEngine(algo, reread, cs) ==
  [algo |-> algo,
   reread_on_query |-> reread,
   case_sensitive |-> cs,
   lines |-> << >>,
   lineSet |-> {},
   sortedLines |-> << >>,
   cache |-> << >>,
   lastModified |-> 0,
   bloom |-> BloomFilter(BLOOM_CAPACITY, BLOOM_ERROR_PPM)]

\* what a read or a construction returns: the engine after it and whether
\* it returned normally (ok) or raised
Ret(e, ok) == [eng |-> e, ok |-> ok]

\* SearchAlgorithm._read_file: skips the read when lines are cached and the
\* mtime is not newer; lines are rstripped, decoded with replacement and
\* lower-cased when the engine is case-insensitive
BaseReadFile(e, f) ==
  IF Len(e.lines) > 0 /\ f.mtime <= e.lastModified THEN Ret(e, TRUE)
  ELSE LET raw == BinaryLines(f.content)
           conv(l) == IF e.case_sensitive THEN DecodeReplace(RStrip(l)) ELSE Lower(DecodeReplace(RStrip(l)))
       IN Ret([e EXCEPT !.lastModified = f.mtime, !.lines = [i \in 1..Len(raw) |-> conv(raw[i])]], TRUE)

\* InMemorySearch._read_file: a set of strictly decoded lines; a decode
\* failure raises RuntimeError and leaves _lines as it was
InMemoryReadFile(e, f) ==
  LET raw == BinaryLines(f.content)
  IN IF \A i \in 1..Len(raw) : ValidUtf8(raw[i])
     THEN Ret([e EXCEPT !.lineSet = {RStrip(raw[i]) : i \in 1..Len(raw)}], TRUE)
     ELSE Ret(e, FALSE)

\* number of leading lines that decode (all of them when none fails)
GoodPrefix(raw) == IF \A i \in 1..Len(raw) : ValidUtf8(raw[i]) THEN Len(raw) ELSE (CHOOSE i \in 1..Len(raw) : ~ValidUtf8(raw[i]) /\ \A j \in 1..(i-1) : ValidUtf8(raw[j])) - 1

\* HashSearch._read_file: clears the set, then adds line by line
HashReadFile(e, f) ==
  LET raw == BinaryLines(f.content)
      n == GoodPrefix(raw)
  IN Ret([e EXCEPT !.lineSet = {RStrip(raw[i]) : i \in 1..n}], n = Len(raw))

RECURSIVE BloomAddAll(_, _)
BloomAddAll(bloom, keys) == IF Len(keys) = 0 THEN bloom ELSE BloomAddAll(BloomAdd(bloom, keys[1]), Tail(keys))

\* BloomFilterSearch._read_file: a new filter with the literal parameters,
\* the set cleared, then every line added to both
BloomReadFile(e, f) ==
  LET raw == BinaryLines(f.content)
      n == GoodPrefix(raw)
      conv(l) == IF e.case_sensitive THEN RStrip(l) ELSE Lower(RStrip(l))
      keys == [i \in 1..n |-> conv(raw[i])]
  IN Ret([e EXCEPT !.bloom = BloomAddAll(BloomFilter(1000000, 1000), keys), !.lineSet = Range(keys)], n = Len(raw))

\* BoyerMoore._read_file: text-mode read of the whole file split on '\n';
\* any failure is swallowed and leaves an empty cache
BoyerMooreReadFile(e, f) ==
  IF ValidUtf8(f.content)
  THEN LET text == UniversalNewlines(f.content)
       IN Ret([e EXCEPT !.cache = text, !.lines = SplitLF(text)], TRUE)
  ELSE Ret([e EXCEPT !.cache = << >>, !.lines = << >>], TRUE)

RECURSIVE Insert(_, _)
Insert(sorted, x) ==
  IF Len(sorted) = 0 THEN << x >>
  ELSE IF StrLess(x, sorted[1]) THEN << x >> \o sorted
  ELSE << sorted[1] >> \o Insert(Tail(sorted), x)

RECURSIVE Sorted(_)
\* sorted(self._lines)
Sorted(s) == IF Len(s) = 0 THEN << >> ELSE Insert(Sorted(Tail(s)), s[1])

\* _read_and_sort_file without the call of sorted
ReadFileUnsorted(e, f) ==
  LET r == BaseReadFile(e, f)
  IN Ret([r.eng EXCEPT !.sortedLines = r.eng.lines], r.ok)

\* BinarySearch._read_and_sort_file
ReadAndSortFile(e, f) ==
  LET r == BaseReadFile(e, f)
  IN Ret([r.eng EXCEPT !.sortedLines = Sorted(r.eng.lines)], r.ok)

\* the _read_file an engine class resolves to
ReadFile(e, f) ==
  CASE e.algo \in {"simple", "regex", "kmp", "rabinkarp", "grep"} -> BaseReadFile(e, f)
    [] e.algo = "binary" -> ReadAndSortFile(e, f)
    [] e.algo = "inmemory" -> InMemoryReadFile(e, f)
    [] e.algo = "hash" -> HashReadFile(e, f)
    [] e.algo = "bloom" -> BloomReadFile(e, f)
    [] e.algo = "boyermoore" -> BoyerMooreReadFile(e, f)

\* Engine construction: __init__(file_path, reread_on_query[, case_sensitive]).
\* csGiven says whether the caller passes case_sensitive; a class without
\* that parameter raises TypeError.  The corpus is read unless reread is on.
Construct(algo, f, reread, csGiven, cs) ==
  IF csGiven /\ ~AcceptsCaseSensitive(algo) THEN Ret(NewEngine(algo, reread, TRUE), FALSE)
  ELSE LET e == NewEngine(algo, reread, IF csGiven THEN cs ELSE TRUE)
       IN IF reread THEN Ret(e, TRUE) ELSE ReadFile(e, f)


\* ------------------------------------------------------------------------
\* search(query) of each engine
\* ------------------------------------------------------------------------
\* what search returns: the engine after the call, whether it returned
\* normally, and the boolean it returned
SRet(e, ok, found) == [eng |-> e, ok |-> ok, found |-> found]

\* `if self.reread_on_query: self._read_file()`, read being what the
\* _read_file of the engine's class returns
RereadIfOn(e, read) == IF e.reread_on_query THEN read ELSE Ret(e, TRUE)

\* SimpleSearch.search: the empty query never matches; every stored line
\* but the last (a str) is compared with the stripped query bytes
SimpleSearchScan(r, query, query_bytes) ==
  IF ~r.ok THEN SRet(r.eng, FALSE, FALSE)
  ELSE IF Len(query) = 0 THEN SRet(r.eng, TRUE, FALSE)
  ELSE SRet(r.eng, TRUE, \E i \in 1..(Len(r.eng.lines) - 1) : PyEq(PyStr(r.eng.lines[i]), PyBytes(RStrip(query_bytes))))

SimpleSearchSearch(e, f, query) == SimpleSearchScan(RereadIfOn(e, BaseReadFile(e, f)), query, EncodeUtf8(query) \o << LF >>)

\* InMemorySearch.search / HashSearch.search: set membership
SetSearch(r, query) ==
  IF ~r.ok THEN SRet(r.eng, FALSE, FALSE)
  ELSE SRet(r.eng, TRUE, query \in r.eng.lineSet)

InMemorySearchSearch(e, f, query) == SetSearch(RereadIfOn(e, InMemoryReadFile(e, f)), query)

HashSearchSearch(e, f, query) == SetSearch(RereadIfOn(e, HashReadFile(e, f)), query)

RECURSIVE BinaryLoop(_, _, _, _)
\* the while loop of BinarySearch.search, indices 0-based as in the code
BinaryLoop(sorted_lines, query, left, right) ==
  IF left > right THEN FALSE
  ELSE LET mid == (left + right) \div 2
       IN IF sorted_lines[mid + 1] = query THEN TRUE
          ELSE IF StrLess(sorted_lines[mid + 1], query) THEN BinaryLoop(sorted_lines, query, mid + 1, right)
          ELSE BinaryLoop(sorted_lines, query, left, mid - 1)

RECURSIVE LinearComparisons(_, _, _, _)
\* the count of a loop that would step through [left, right] one element
\* at a time instead of halving it
LinearComparisons(sorted_lines, query, left, right) ==
  IF left > right THEN 0
  ELSE IF sorted_lines[left + 1] = query THEN 1
  ELSE 1 + LinearComparisons(sorted_lines, query, left + 1, right)

RECURSIVE BinaryComparisons(_, _, _, _)
\* stats["comparisons"] at the end of the while loop of BinarySearch.search
BinaryComparisons(sorted_lines, query, left, right) ==
  IF left > right THEN 0
  ELSE LET mid == (left + right) \div 2
       IN IF sorted_lines[mid + 1] = query THEN 1
          ELSE IF StrLess(sorted_lines[mid + 1], query) THEN 1 + BinaryComparisons(sorted_lines, query, mid + 1, right)
          ELSE 1 + BinaryComparisons(sorted_lines, query, left, mid - 1)

\* BinarySearch.search
BinarySearchScan(r, q) ==
  IF ~r.ok THEN SRet(r.eng, FALSE, FALSE)
  ELSE SRet(r.eng, TRUE, BinaryLoop(r.eng.sortedLines, q, 0, Len(r.eng.sortedLines) - 1))

BinarySearchSearch(e, f, query) ==
  BinarySearchScan(RereadIfOn(e, ReadAndSortFile(e, f)), IF e.case_sensitive THEN query ELSE Lower(query))

\* super().search(query) followed by the subclass's own reread test
\* (RegexSearch, KMP, RabinKarp, BoyerMoore): two reads when reread is on
SecondReread(r1, f) == IF ~r1.ok THEN r1 ELSE RereadIfOn(r1.eng, BaseReadFile(r1.eng, f))

DoubleReread(e, f) == SecondReread(RereadIfOn(e, BaseReadFile(e, f)), f)

\* str.lower() when the engine is case-insensitive
Fold(e, x) == IF e.case_sensitive THEN x ELSE Lower(x)

\* RegexSearch.search: equality with each stored line, both lower-cased
\* when the engine is case-insensitive
RegexSearchScan(r, query) ==
  IF ~r.ok THEN SRet(r.eng, FALSE, FALSE)
  ELSE SRet(r.eng, TRUE, \E i \in 1..Len(r.eng.lines) : Fold(r.eng, r.eng.lines[i]) = Fold(r.eng, query))

RegexSearchSearch(e, f, query) == RegexSearchScan(DoubleReread(e, f), query)

\* the search as it would be with the filter alone: a hit of the filter is
\* not confirmed against the set
BloomFilterOnlyScan(r, q) ==
  IF ~r.ok THEN SRet(r.eng, FALSE, FALSE)
  ELSE SRet(r.eng, TRUE, BloomContains(r.eng.bloom, q))

\* BloomFilterSearch.search: filter hit confirmed against the exact set
BloomFilterSearchScan(r, q) ==
  IF ~r.ok THEN SRet(r.eng, FALSE, FALSE)
  ELSE SRet(r.eng, TRUE, BloomContains(r.eng.bloom, q) /\ q \in r.eng.lineSet)

BloomFilterSearchSearch(e, f, query) == BloomFilterSearchScan(RereadIfOn(e, BloomReadFile(e, f)), Fold(e, query))

\* grep -Fxq [-i] target file: exit status 0 iff some line of the file, as
\* it is now, equals the target (ignoring case with -i)
GrepLinesOf(raw) == [i \in 1..Len(raw) |-> RStripSet(raw[i], {LF})]

GrepLines(content) == GrepLinesOf(BinaryLines(content))

GrepMatch(e, ls, target_bytes) == \E i \in 1..Len(ls) : Fold(e, ls[i]) = Fold(e, target_bytes)

GrepSearchGrep(e, f, target) == GrepMatch(e, GrepLines(f.content), EncodeUtf8(target))

\* GrepSearch.search: the subprocess when reread is on, the loaded list
\* otherwise
GrepSearchOn(e, f, target) ==
  IF e.reread_on_query THEN SRet(e, TRUE, GrepSearchGrep(e, f, target))
  ELSE SRet(e, TRUE, Contains(e.lines, target))

GrepSearchSearch(e, f, query) == GrepSearchOn(e, f, Fold(e, query))


RECURSIVE ComputeLpsLoop(_, _, _, _)
\* the while loop of KMP._compute_lps (i and len_prev_lps 0-based)
ComputeLpsLoop(pattern, lps, len_prev_lps, i) ==
  IF i >= Len(pattern) THEN lps
  ELSE IF pattern[i + 1] = pattern[len_prev_lps + 1]
       THEN ComputeLpsLoop(pattern, [lps EXCEPT ![i + 1] = len_prev_lps + 1], len_prev_lps + 1, i + 1)
       ELSE IF len_prev_lps > 0
            THEN ComputeLpsLoop(pattern, lps, lps[len_prev_lps], i)
            ELSE ComputeLpsLoop(pattern, [lps EXCEPT ![i + 1] = 0], len_prev_lps, i + 1)

\* KMP._compute_lps
ComputeLps(pattern) == ComputeLpsLoop(pattern, [k \in 1..Len(pattern) |-> 0], 0, 1)

RECURSIVE KmpLoop(_, _, _, _, _)
\* the while loop of KMP._kmp_search (i, j 0-based)
KmpLoop(text, pattern, lps, i, j) ==
  IF i >= Len(text) THEN FALSE
  ELSE LET hit == pattern[j + 1] = text[i + 1]
           i1 == IF hit THEN i + 1 ELSE i
           j1 == IF hit THEN j + 1 ELSE j
       IN IF j1 = Len(pattern) THEN TRUE
          ELSE IF i1 < Len(text) /\ pattern[j1 + 1] # text[i1 + 1]
               THEN IF j1 > 0 THEN KmpLoop(text, pattern, lps, i1, lps[j1])
                    ELSE KmpLoop(text, pattern, lps, i1 + 1, j1)
               ELSE KmpLoop(text, pattern, lps, i1, j1)

\* KMP._kmp_search
KmpSearch(text, pattern) ==
  IF Len(text) # Len(pattern) THEN FALSE
  ELSE KmpLoop(text, pattern, ComputeLps(pattern), 0, 0)

\* KMP.search
KMPScan(r, query) ==
  IF ~r.ok THEN SRet(r.eng, FALSE, FALSE)
  ELSE SRet(r.eng, TRUE, \E i \in 1..Len(r.eng.lines) : KmpSearch(Fold(r.eng, r.eng.lines[i]), Fold(r.eng, query)))

KMPSearch(e, f, query) == KMPScan(DoubleReread(e, f), query)

\* RabinKarp._check_strings with start = 0
CheckStrings(text, pattern) == \A i \in 1..Len(pattern) : text[i] = pattern[i]

\* the test of one line as it would be without the call of _check_strings
RabinKarpHashOnly(text, pattern) ==
  /\ Len(text) = Len(pattern)
  /\ CalculateHash(text, Len(pattern), << RK_BASE, RK_PRIME >>) = CalculateHash(pattern, Len(pattern), << RK_BASE, RK_PRIME >>)

\* RabinKarp.search: equal-length lines whose hash equals the query's are
\* confirmed character by character
RabinKarpMatch(text, pattern) ==
  /\ Len(text) = Len(pattern)
  /\ CalculateHash(text, Len(pattern), << RK_BASE, RK_PRIME >>) = CalculateHash(pattern, Len(pattern), << RK_BASE, RK_PRIME >>)
  /\ CheckStrings(text, pattern)

RabinKarpScan(r, query) ==
  IF ~r.ok THEN SRet(r.eng, FALSE, FALSE)
  ELSE SRet(r.eng, TRUE, \E i \in 1..Len(r.eng.lines) : RabinKarpMatch(Fold(r.eng, r.eng.lines[i]), Fold(r.eng, query)))

RabinKarpSearch(e, f, query) == RabinKarpScan(DoubleReread(e, f), query)

RECURSIVE BuildBadCharKeepFirst(_, _, _)
\* the loop as it would be if an entry, once written, were kept: the first
\* occurrence of a character decides
BuildBadCharKeepFirst(pattern, table, i) ==
  IF i >= Len(pattern) - 1 THEN table
  ELSE BuildBadCharKeepFirst(pattern, table @@ (pattern[i + 1] :> (Len(pattern) - 1 - i)), i + 1)

RECURSIVE BuildBadCharLoop(_, _, _)
\* the for loop of BoyerMoore._build_bad_char_table (i 0-based); the table
\* is a function from characters to shifts, later entries overwrite
BuildBadCharLoop(pattern, table, i) ==
  IF i >= Len(pattern) - 1 THEN table
  ELSE BuildBadCharLoop(pattern, (pattern[i + 1] :> (Len(pattern) - 1 - i)) @@ table, i + 1)

\* BoyerMoore._build_bad_char_table; the empty table is the empty function
BuildBadCharTable(pattern) == BuildBadCharLoop(pattern, [c \in {} |-> 0], 0)

RECURSIVE FindSuffixLoop(_, _, _, _)
FindSuffixLoop(pattern, length, i, j) ==
  IF i >= 0 /\ pattern[i + 1] = pattern[j + 1] THEN FindSuffixLoop(pattern, length + 1, i - 1, j - 1)
  ELSE length

\* BoyerMoore._find_suffix_length
FindSuffixLength(pattern, p) == FindSuffixLoop(pattern, 0, p, Len(pattern) - 1)

\* BoyerMoore._is_prefix: zip(range(p, m), range(m - p))
IsPrefix(pattern, p) == \A t \in 0..(Len(pattern) - p - 1) : pattern[p + t + 1] = pattern[t + 1]

RECURSIVE GoodSuffixLoop1(_, _, _, _)
\* first loop of _build_good_suffix_table, i from m-1 down to 0
GoodSuffixLoop1(pattern, table, last_prefix_position, i) ==
  IF i < 0 THEN table
  ELSE LET lpp == IF IsPrefix(pattern, i + 1) THEN i + 1 ELSE last_prefix_position
       IN GoodSuffixLoop1(pattern, [table EXCEPT ![Len(pattern) - 1 - i + 1] = lpp - i + Len(pattern) - 1], lpp, i - 1)

RECURSIVE GoodSuffixLoop2(_, _, _)
\* second loop of _build_good_suffix_table, i from 0 to m-2
GoodSuffixLoop2(pattern, table, i) ==
  IF i >= Len(pattern) - 1 THEN table
  ELSE LET suffix_length == FindSuffixLength(pattern, i)
       IN GoodSuffixLoop2(pattern,
            IF suffix_length > 0 THEN [table EXCEPT ![suffix_length + 1] = Len(pattern) - 1 - i + suffix_length] ELSE table,
            i + 1)

\* BoyerMoore._build_good_suffix_table
BuildGoodSuffixTable(pattern) ==
  GoodSuffixLoop2(pattern, GoodSuffixLoop1(pattern, [k \in 1..Len(pattern) |-> 0], Len(pattern), Len(pattern) - 1), 0)

RECURSIVE BMInner(_, _, _, _)
\* inner while of BoyerMoore.search: returns <<j, k>> where it stops
BMInner(line, query, j, k) ==
  IF j >= 0 /\ line[k + 1] = query[j + 1] THEN BMInner(line, query, j - 1, k - 1) ELSE << j, k >>

\* max(bad_char_shift, good_suffix_shift)
Max(a, b) == IF a > b THEN a ELSE b

\* bad_char_table.get(line[k], m)
BadCharShift(bad_char_table, c, m) == IF c \in DOMAIN bad_char_table THEN bad_char_table[c] ELSE m

RECURSIVE BMLineLoop(_, _, _, _, _)
RECURSIVE BMShift(_, _, _, _, _, _)
\* after the inner while stopped at jk = <<j, k>>: a match when j is -1,
\* otherwise the shift of i
BMShift(line, query, bad_char_table, good_suffix_table, i, jk) ==
  IF jk[1] = -1 THEN TRUE
  ELSE BMLineLoop(line, query, bad_char_table, good_suffix_table,
                  i + Max(BadCharShift(bad_char_table, line[jk[2] + 1], Len(query)), good_suffix_table[Len(query) - 1 - jk[1] + 1]))

\* outer while of BoyerMoore.search on one equal-length line
BMLineLoop(line, query, bad_char_table, good_suffix_table, i) ==
  IF i >= Len(line) THEN FALSE
  ELSE BMShift(line, query, bad_char_table, good_suffix_table, i, BMInner(line, query, Len(query) - 1, i))

\* the scan as it would be without `if len(line) != len(query): continue`:
\* every line at least as long as the query is scanned
BoyerMooreScanAnyLength(r, query, bad_char_table, good_suffix_table) ==
  SRet(r.eng, TRUE, \E n \in 1..Len(r.eng.lines) :
         /\ Len(r.eng.lines[n]) >= Len(query)
         /\ BMLineLoop(r.eng.lines[n], query, bad_char_table, good_suffix_table, Len(query) - 1))

\* BoyerMoore.search: two rereads when reread is on, a further read while
\* the cache is empty, then the scan of the equal-length lines
BoyerMooreScan(r, query, bad_char_table, good_suffix_table) ==
  SRet(r.eng, TRUE, \E n \in 1..Len(r.eng.lines) :
         /\ Len(r.eng.lines[n]) = Len(query)
         /\ BMLineLoop(r.eng.lines[n], query, bad_char_table, good_suffix_table, Len(query) - 1))

BMSecondReread(r1, f) == RereadIfOn(r1.eng, BoyerMooreReadFile(r1.eng, f))

\* `if not self._cache: self._read_file()`
BMReadIfNoCache(r2, f) == IF Len(r2.eng.cache) = 0 THEN BoyerMooreReadFile(r2.eng, f) ELSE r2

BoyerMooreSearch(e, f, query) ==
  BoyerMooreScan(BMReadIfNoCache(BMSecondReread(RereadIfOn(e, BoyerMooreReadFile(e, f)), f), f),
                 query, BuildBadCharTable(query), BuildGoodSuffixTable(query))

\* -- _stats["comparisons"] after a search ------------------------------------
RECURSIVE KmpLoopCount(_, _, _, _, _)
\* the increments of comparisons in the while loop of KMP._kmp_search: one
\* for each iteration
KmpLoopCount(text, pattern, lps, i, j) ==
  IF i >= Len(text) THEN 0
  ELSE LET hit == pattern[j + 1] = text[i + 1]
           i1 == IF hit THEN i + 1 ELSE i
           j1 == IF hit THEN j + 1 ELSE j
       IN IF j1 = Len(pattern) THEN 1
          ELSE IF i1 < Len(text) /\ pattern[j1 + 1] # text[i1 + 1]
               THEN IF j1 > 0 THEN 1 + KmpLoopCount(text, pattern, lps, i1, lps[j1])
                    ELSE 1 + KmpLoopCount(text, pattern, lps, i1 + 1, j1)
               ELSE 1 + KmpLoopCount(text, pattern, lps, i1, j1)

\* the comparisons one call of KMP._kmp_search adds: none when the lengths
\* differ
KmpSearchCount(text, pattern) ==
  IF Len(text) # Len(pattern) THEN 0
  ELSE KmpLoopCount(text, pattern, ComputeLps(pattern), 0, 0)

RECURSIVE CheckStringsCount(_, _, _)
\* the comparisons RabinKarp._check_strings adds: one for each character
\* up to and including the first mismatch
CheckStringsCount(text, pattern, i) ==
  IF i > Len(pattern) THEN 0
  ELSE IF text[i] # pattern[i] THEN 1
  ELSE 1 + CheckStringsCount(text, pattern, i + 1)

\* the comparisons RabinKarp.search adds for one line
RabinKarpCount(text, pattern) ==
  IF Len(text) # Len(pattern) THEN 0
  ELSE IF CalculateHash(text, Len(pattern), << RK_BASE, RK_PRIME >>) # CalculateHash(pattern, Len(pattern), << RK_BASE, RK_PRIME >>) THEN 0
  ELSE CheckStringsCount(text, pattern, 1)

RECURSIVE BMLineCount(_, _, _, _, _)
\* the comparisons the outer while of BoyerMoore.search adds on one
\* equal-length line: one for each character the inner while matched,
\* one more before each shift
BMLineCount(line, query, bad_char_table, good_suffix_table, i) ==
  IF i >= Len(line) THEN 0
  ELSE LET jk == BMInner(line, query, Len(query) - 1, i)
           matched == Len(query) - 1 - jk[1]
       IN IF jk[1] = -1 THEN matched
          ELSE matched + 1 + BMLineCount(line, query, bad_char_table, good_suffix_table,
                 i + Max(BadCharShift(bad_char_table, line[jk[2] + 1], Len(query)), good_suffix_table[Len(query) - 1 - jk[1] + 1]))

\* max(bad_char_shift, good_suffix_shift) after the inner while stopped at
\* jk = <<j, k>> with j >= 0
BMShiftBy(line, query, bad_char_table, good_suffix_table, jk) ==
  Max(BadCharShift(bad_char_table, line[jk[2] + 1], Len(query)), good_suffix_table[Len(query) - 1 - jk[1] + 1])

RECURSIVE BMAlignments(_, _, _, _, _)
\* the iterations of the outer while of BoyerMoore.search on one line: the
\* alignments at which the line is examined
BMAlignments(line, query, bad_char_table, good_suffix_table, i) ==
  IF i >= Len(line) THEN 0
  ELSE LET jk == BMInner(line, query, Len(query) - 1, i)
       IN IF jk[1] = -1 THEN 1
          ELSE 1 + BMAlignments(line, query, bad_char_table, good_suffix_table,
                     i + BMShiftBy(line, query, bad_char_table, good_suffix_table, jk))

RECURSIVE HashCollisions(_, _, _)
\* _stats["hash_collisions"] when RabinKarp.search(query) returns: reset to
\* 0, then one for each line from the n-th on whose hash equals the
\* query's and that _check_strings rejects, up to the first line it accepts
HashCollisions(e, query, n) ==
  IF n > Len(e.lines) THEN 0
  ELSE IF RabinKarpMatch(Fold(e, e.lines[n]), Fold(e, query)) THEN 0
  ELSE (IF RabinKarpHashOnly(Fold(e, e.lines[n]), Fold(e, query)) THEN 1 ELSE 0) + HashCollisions(e, query, n + 1)

\* the comparisons the search adds for one line, and whether the line ends
\* the search
LineCount(e, line, query) ==
  CASE e.algo = "kmp" -> KmpSearchCount(Fold(e, line), Fold(e, query))
    [] e.algo = "rabinkarp" -> RabinKarpCount(Fold(e, line), Fold(e, query))
    [] e.algo = "boyermoore" -> IF Len(line) # Len(query) THEN 0
                                ELSE BMLineCount(line, query, BuildBadCharTable(query), BuildGoodSuffixTable(query), Len(query) - 1)

LineHit(e, line, query) ==
  CASE e.algo = "kmp" -> KmpSearch(Fold(e, line), Fold(e, query))
    [] e.algo = "rabinkarp" -> RabinKarpMatch(Fold(e, line), Fold(e, query))
    [] e.algo = "boyermoore" -> Len(line) = Len(query) /\ BMLineLoop(line, query, BuildBadCharTable(query), BuildGoodSuffixTable(query), Len(query) - 1)

RECURSIVE Comparisons(_, _, _)
\* _stats["comparisons"] when search(query) of a KMP, RabinKarp or
\* BoyerMoore engine returns: reset to 0, then the lines from the n-th on
\* are scanned up to the first that matches
Comparisons(e, query, n) ==
  IF n > Len(e.lines) THEN 0
  ELSE IF LineHit(e, e.lines[n], query) THEN LineCount(e, e.lines[n], query)
  ELSE LineCount(e, e.lines[n], query) + Comparisons(e, query, n + 1)

\* search of the engine's class
Search(e, f, query) ==
  CASE e.algo = "simple" -> SimpleSearchSearch(e, f, query)
    [] e.algo = "inmemory" -> InMemorySearchSearch(e, f, query)
    [] e.algo = "hash" -> HashSearchSearch(e, f, query)
    [] e.algo = "binary" -> BinarySearchSearch(e, f, query)
    [] e.algo = "regex" -> RegexSearchSearch(e, f, query)
    [] e.algo = "bloom" -> BloomFilterSearchSearch(e, f, query)
    [] e.algo = "boyermoore" -> BoyerMooreSearch(e, f, query)
    [] e.algo = "kmp" -> KMPSearch(e, f, query)
    [] e.algo = "rabinkarp" -> RabinKarpSearch(e, f, query)
    [] e.algo = "grep" -> GrepSearchSearch(e, f, query)


\* ------------------------------------------------------------------------
\* State
\* ------------------------------------------------------------------------
VARIABLES
  fs,        \* the corpus file: [content, mtime]
  eng,       \* the engine instance (algo = "none" before construction)
  last,      \* the last engine-level operation and what it returned
  ghost,     \* history: the file content the engine was constructed on,
             \* whether case_sensitive was passed, whether the file grew since,
             \* the filter parameters and the reread flag it was constructed with
  impl,      \* which server module runs: "server.py" or "server/server.py"
  cfg,       \* the configuration the server consumes
  hpc,       \* where the server / the connection's handler stands
  wire,      \* bytes the client sent that have not reached the server yet
  inbuf,     \* bytes that arrived at the server socket and were not received yet
  data,      \* the bytearray _receive_request accumulates (server/server.py)
  out,       \* the response lines written to the connection, in order
  searched,  \* the queries the handler passed to the engine, in order
  sent,      \* the messages the client sent, in order, with where each was split
  clientClosed, \* the client closed its end
  registry,     \* the class-level engine registry: key -> instance (0: none)
  initialized,  \* SearchAlgorithmManager._initialized
  heap,         \* the engine instances constructed so far, by identity
  requests,     \* ThreadPoolMixIn._requests, the bounded queue
  backlog,      \* the work submitted to the executor and not yet started
  conn,         \* the connections of the clients
  worker,       \* the threads of the executor
  servers,      \* the keys whose server was started in this process
  maxWorkers,   \* ThreadPoolMixIn._max_workers, the size of the executor
  shutdown,     \* ThreadPoolMixIn._shutdown
  proc,         \* the request-processor threads: where each one stands
  sclose        \* how far server_close has come

engineVars == << fs, eng, last, ghost >>

connVars == << impl, cfg, hpc, wire, inbuf, data, out, searched, sent, clientClosed >>

poolVars == << registry, initialized, heap, requests, backlog, conn, worker, servers >>

serverVars == << maxWorkers, shutdown, proc, sclose >>

vars == << fs, eng, last, ghost, impl, cfg, hpc, wire, inbuf, data, out, searched, sent, clientClosed, registry, initialized, heap, requests, backlog, conn, worker, servers, maxWorkers, shutdown, proc, sclose >>

\* ------------------------------------------------------------------------
\* Inputs
\* ------------------------------------------------------------------------
Alphabet == {UpperA, LowerA}

RECURSIVE SeqsUpTo(_, _)
\* the sequences over S of length at most n
SeqsUpTo(S, n) == IF n = 0 THEN {<< >>} ELSE LET shorter == SeqsUpTo(S, n - 1) IN shorter \cup {Append(t, x) : t \in shorter, x \in S}

Words == SeqsUpTo(Alphabet, MaxWordLen)

\* the lines a corpus file is written from, and the queries tried
RawLines == Words

Queries == Words

RECURSIVE JoinLines(_)
\* every line followed by its terminator
JoinLines(ls) == IF Len(ls) = 0 THEN << >> ELSE ls[1] \o << LF >> \o JoinLines(Tail(ls))

\* corpus files of at most MaxLines lines, with or without a final newline
Files == {JoinLines(ls) : ls \in SeqsUpTo(RawLines, MaxLines)} \cup {RStripSet(JoinLines(ls), {LF}) : ls \in SeqsUpTo(RawLines, MaxLines)}

NoEngine == NewEngine("none", FALSE, TRUE)

NoOp == [op |-> "none", algo |-> "none", query |-> << >>, ok |-> TRUE, found |-> FALSE]

NoGhost == [built |-> << >>, csGiven |-> FALSE, appended |-> FALSE, capacity |-> BLOOM_CAPACITY, error_rate |-> BLOOM_ERROR_PPM, reread |-> FALSE]

NoCfg == [search_algorithm |-> "none", reread_on_query |-> FALSE, case_sensitive |-> TRUE, use_ssl |-> FALSE, ssl_cert |-> "valid"]

ConnIdle ==
  /\ impl = "none"
  /\ cfg = NoCfg
  /\ hpc = "off"
  /\ wire = << >>
  /\ inbuf = << >>
  /\ data = << >>
  /\ out = << >>
  /\ searched = << >>
  /\ sent = << >>
  /\ clientClosed = FALSE

\* the connections that arrive and the threads of the executor
MaxConns == 2
MaxWorkers == 2

Conns == 1..MaxConns

Workers == 1..MaxWorkers

\* the request-processor threads a server can have
Processors == 1..MaxWorkers

\* a connection: where it is (new, queued, submitted, handling, closed), the
\* line its client sends, what was written to its socket, the workers that
\* handled it, whether the queue was full when it was accepted, whether its
\* handler failed and whether it was accepted after _shutdown was set
NoConn == [st |-> "new", query |-> << >>, resp |-> << >>, by |-> {}, full |-> FALSE, failed |-> FALSE, late |-> FALSE]

\* a thread of the executor: its position, the connection and key of the
\* handler it runs, the engine the handler holds, the line the reload has
\* reached and the query being answered
NoWorker == [pc |-> "idle", conn |-> 0, key |-> "none", inst |-> 0, i |-> 0, q |-> << >>]

\* server_close: its position (no: not called, put: putting the sentinels,
\* end: about to shut the executor down, closed: executor shut down and
\* listening socket closed), the sentinel it puts next and how full
\* _requests was when it was called
NoClose == [pc |-> "no", k |-> 0, at |-> "none"]

PoolIdle ==
  /\ registry = [k \in Algorithms |-> 0]
  /\ initialized = FALSE
  /\ heap = << >>
  /\ requests = << >>
  /\ backlog = << >>
  /\ conn = [c \in Conns |-> NoConn]
  /\ worker = [w \in Workers |-> NoWorker]
  /\ servers = {}
  /\ shutdown = FALSE
  /\ proc = [p \in Processors |-> "absent"]
  /\ sclose = NoClose

\* ------------------------------------------------------------------------
\* Engines driven directly (as tests/algorithms_test.py drives them)
\* ------------------------------------------------------------------------
InitEngine ==
  /\ fs \in {[content |-> c, mtime |-> 1] : c \in Files}
  /\ eng = NoEngine
  /\ last = NoOp
  /\ ghost = NoGhost
  /\ ConnIdle
  /\ PoolIdle
  /\ maxWorkers = MaxWorkers

\* engine = Class(file_path, reread_on_query[, case_sensitive = cs])
EngConstruct(algo, reread, csGiven, cs) ==
  /\ eng.algo = "none"
  /\ (~csGiven => cs)
  /\ last.op = "none"
  /\ \E k \in {Construct(algo, fs, reread, csGiven, cs)} :
        /\ eng' = IF k.ok THEN k.eng ELSE NoEngine
        /\ last' = [op |-> "construct", algo |-> algo, query |-> << >>, ok |-> k.ok, found |-> FALSE]
        /\ ghost' = [built |-> fs.content, csGiven |-> csGiven, appended |-> FALSE, capacity |-> BLOOM_CAPACITY, error_rate |-> BLOOM_ERROR_PPM, reread |-> reread]
  /\ UNCHANGED << fs, connVars, poolVars, serverVars >>

\* the error rate tests/algorithms_test.py passes (0.01, in parts per
\* million) and a capacity other than the default
TEST_ERROR_PPM == 10000

OtherCapacity == 1000

\* BloomFilterSearch(file_path, reread_on_query, capacity, error_rate):
\* __init__ builds the filter from its arguments, then reads the corpus
\* unless reread is on
BloomFilterSearchInit(f, reread, capacity, error_ppm) ==
  LET e == [NewEngine("bloom", reread, TRUE) EXCEPT !.bloom = BloomFilter(capacity, error_ppm)]
  IN IF reread THEN Ret(e, TRUE) ELSE ReadFile(e, f)

\* engine = BloomFilterSearch(file_path, reread_on_query, capacity = ..., error_rate = ...)
EngConstructBloom(reread, capacity, error_ppm) ==
  /\ eng.algo = "none"
  /\ last.op = "none"
  /\ \E k \in {BloomFilterSearchInit(fs, reread, capacity, error_ppm)} :
        /\ eng' = IF k.ok THEN k.eng ELSE NoEngine
        /\ last' = [op |-> "construct", algo |-> "bloom", query |-> << >>, ok |-> k.ok, found |-> FALSE]
        /\ ghost' = [built |-> fs.content, csGiven |-> FALSE, appended |-> FALSE, capacity |-> capacity, error_rate |-> error_ppm, reread |-> reread]
  /\ UNCHANGED << fs, connVars, poolVars, serverVars >>

\* engine.search(query)
EngSearch(query) ==
  /\ eng.algo # "none"
  /\ \E s \in {Search(eng, fs, query)} :
        /\ eng' = s.eng
        /\ last' = [op |-> "search", algo |-> eng.algo, query |-> query, ok |-> s.ok, found |-> s.found]
  /\ UNCHANGED << fs, ghost, connVars, poolVars, serverVars >>

\* number of line terminators in the file
CountLF(content) == Cardinality({i \in 1..Len(content) : content[i] = LF})

\* open(file, 'ab').write(line + b"\n") on a newline-terminated file once
\* the engine exists (a file grown before that is one of the initial
\* files); the mtime advances unless the write falls into the same
\* timestamp tick as the previous modification
FileAppend(line, tick) ==
  /\ eng.algo # "none"
  /\ (IF Len(fs.content) = 0 THEN TRUE ELSE fs.content[Len(fs.content)] = LF)
  /\ CountLF(fs.content) < MaxLines
  /\ fs.mtime + tick <= MaxMtime
  /\ fs' = [content |-> fs.content \o line \o << LF >>, mtime |-> fs.mtime + tick]
  /\ last' = [op |-> "append", algo |-> eng.algo, query |-> line, ok |-> TRUE, found |-> FALSE]
  /\ ghost' = [ghost EXCEPT !.appended = TRUE]
  /\ UNCHANGED << eng, connVars, poolVars, serverVars >>

NextEngine ==
  \/ \E algo \in Algorithms, reread \in BOOLEAN, csGiven \in BOOLEAN, cs \in BOOLEAN : EngConstruct(algo, reread, csGiven, cs)
  \/ \E reread \in BOOLEAN, capacity \in {BLOOM_CAPACITY, OtherCapacity}, error_ppm \in {BLOOM_ERROR_PPM, TEST_ERROR_PPM} : EngConstructBloom(reread, capacity, error_ppm)
  \/ \E query \in Queries : EngSearch(query)
  \/ \E line \in RawLines \ {<< >>}, tick \in {0, 1} : FileAppend(line, tick)

SpecEngine == InitEngine /\ [][NextEngine]_vars

\* -- the tables of BoyerMoore on patterns over four letters -------------------
MaxTablePatternLen == 4

\* the pattern of TestBoyerMoore.test_bad_char_table, 'ABCDABD'
TestPattern == << UpperA, UpperB, UpperC, UpperD, UpperA, UpperB, UpperD >>

TablePatterns == SeqsUpTo({UpperA, UpperB, UpperC, UpperD}, MaxTablePatternLen) \cup {TestPattern}

InitTables ==
  /\ fs \in {[content |-> c, mtime |-> 1] : c \in {<< >>, JoinLines(<< TestPattern >>)}}
  /\ eng = NoEngine
  /\ last = NoOp
  /\ ghost = NoGhost
  /\ ConnIdle
  /\ PoolIdle
  /\ maxWorkers = MaxWorkers

\* bm = BoyerMoore(test_file); bm.search(pattern), which builds the tables
\* of the pattern
NextTables ==
  \/ \E reread \in BOOLEAN : EngConstruct("boyermoore", reread, FALSE, TRUE)
  \/ \E pattern \in TablePatterns : EngSearch(pattern)

SpecTables == InitTables /\ [][NextTables]_vars

\* -- engines whose reread_on_query flag is reassigned -------------------------
\* engine.reread_on_query = flag, as get_algorithm and setup do on a
\* registered instance
EngSetReread(flag) ==
  /\ eng.algo # "none"
  /\ flag # eng.reread_on_query
  /\ eng' = [eng EXCEPT !.reread_on_query = flag]
  /\ last' = [op |-> "set_reread", algo |-> eng.algo, query |-> << >>, ok |-> TRUE, found |-> FALSE]
  /\ UNCHANGED << fs, ghost, connVars, poolVars, serverVars >>

NextEngineFlag ==
  \/ \E algo \in Algorithms, reread \in BOOLEAN, csGiven \in BOOLEAN, cs \in BOOLEAN : EngConstruct(algo, reread, csGiven, cs)
  \/ \E query \in Queries : EngSearch(query)
  \/ \E flag \in BOOLEAN : EngSetReread(flag)

SpecEngineFlag == InitEngine /\ [][NextEngineFlag]_vars

\* -- engines whose corpus file becomes undecodable ----------------------------
\* a line that is not UTF-8
UndecodableLine == << BAD >>

\* open(file, 'wb').write(content) once the engine exists: the file is
\* replaced; the mtime advances unless the write falls into the timestamp
\* tick of the previous modification
FileRewrite(content, tick) ==
  /\ eng.algo # "none"
  /\ content # fs.content
  /\ fs.mtime + tick <= MaxMtime
  /\ fs' = [content |-> content, mtime |-> fs.mtime + tick]
  /\ last' = [op |-> "rewrite", algo |-> eng.algo, query |-> << >>, ok |-> TRUE, found |-> FALSE]
  /\ ghost' = [ghost EXCEPT !.appended = TRUE]
  /\ UNCHANGED << eng, connVars, poolVars, serverVars >>

NextEngineReload ==
  \/ \E algo \in Algorithms, reread \in BOOLEAN, csGiven \in BOOLEAN, cs \in BOOLEAN : EngConstruct(algo, reread, csGiven, cs)
  \/ \E query \in Queries : EngSearch(query)
  \/ \E line \in {UndecodableLine, << LowerA >>}, tick \in {0, 1} : FileAppend(line, tick)
  \/ \E tick \in {0, 1} : FileRewrite(UndecodableLine \o << LF >>, tick)

SpecEngineReload == InitEngine /\ [][NextEngineReload]_vars

\* -- engines on corpus lines with trailing whitespace ------------------------
\* the lines a corpus file is written from and the queries tried: the empty
\* line, "a", "a " and "A"
WsLines == {<< >>, << LowerA >>, << LowerA, SP >>, << UpperA >>}

WsFiles == {JoinLines(ls) : ls \in SeqsUpTo(WsLines, MaxLines)} \cup {RStripSet(JoinLines(ls), {LF}) : ls \in SeqsUpTo(WsLines, MaxLines)}

InitEngineWs ==
  /\ fs \in {[content |-> c, mtime |-> 1] : c \in WsFiles}
  /\ eng = NoEngine
  /\ last = NoOp
  /\ ghost = NoGhost
  /\ ConnIdle
  /\ PoolIdle
  /\ maxWorkers = MaxWorkers

NextEngineWs ==
  \/ \E algo \in Algorithms, reread \in BOOLEAN, csGiven \in BOOLEAN, cs \in BOOLEAN : EngConstruct(algo, reread, csGiven, cs)
  \/ \E query \in WsLines : EngSearch(query)
  \/ \E line \in WsLines \ {<< >>}, tick \in {0, 1} : FileAppend(line, tick)

SpecEngineWs == InitEngineWs /\ [][NextEngineWs]_vars

\* -- BinarySearch on the corpus of tests/search/algorithms_test.py -----------
\* the number of lines setUp writes ("apple" ... "honeydew")
TEST_CORPUS_LINES == 8

\* the lines of that corpus, each standing by its initial letter (a ... h)
TestLines == [i \in 1..TEST_CORPUS_LINES |-> << LowerA + i - 1 >>]

Reverse(s) == [i \in 1..Len(s) |-> s[Len(s) + 1 - i]]

\* the first n lines of the corpus, n from 1 to 8, written in ascending or
\* in descending order
TestFiles ==
  {JoinLines(SubSeq(TestLines, 1, n)) : n \in 1..TEST_CORPUS_LINES}
    \cup {JoinLines(Reverse(SubSeq(TestLines, 1, n))) : n \in 1..TEST_CORPUS_LINES}

InitBinary ==
  /\ fs \in {[content |-> c, mtime |-> 1] : c \in TestFiles}
  /\ eng = NoEngine
  /\ last = NoOp
  /\ ghost = NoGhost
  /\ ConnIdle
  /\ PoolIdle
  /\ maxWorkers = MaxWorkers

\* search = BinarySearch(self.test_file, ...); search.search(line)
NextBinary ==
  \/ \E reread \in BOOLEAN, csGiven \in BOOLEAN, cs \in BOOLEAN : EngConstruct("binary", reread, csGiven, cs)
  \/ \E i \in 1..TEST_CORPUS_LINES : EngSearch(TestLines[i])

SpecBinary == InitBinary /\ [][NextBinary]_vars

\* -- the string matchers (BoyerMoore, KMP, RabinKarp) on longer words --------
MaxPatternLen == 3

\* two words of one length and one RabinKarp hash: "ax" and "bB"
\* ((97 * 256 + 120) % 101 = (98 * 256 + 66) % 101 = 5)
CollidingWords == {<< LowerA, LowerX >>, << LowerB, UpperB >>}

MatcherWords == SeqsUpTo({LowerA, LowerB}, MaxPatternLen) \cup CollidingWords

MatcherFiles == {JoinLines(ls) : ls \in SeqsUpTo(MatcherWords, MaxLines)}

InitMatchers ==
  /\ fs \in {[content |-> c, mtime |-> 1] : c \in MatcherFiles}
  /\ eng = NoEngine
  /\ last = NoOp
  /\ ghost = NoGhost
  /\ ConnIdle
  /\ PoolIdle
  /\ maxWorkers = MaxWorkers

NextMatchers ==
  \/ \E algo \in {"boyermoore", "kmp", "rabinkarp"}, reread \in BOOLEAN, csGiven \in BOOLEAN, cs \in BOOLEAN : EngConstruct(algo, reread, csGiven, cs)
  \/ \E query \in MatcherWords : EngSearch(query)

SpecMatchers == InitMatchers /\ [][NextMatchers]_vars


\* ------------------------------------------------------------------------
\* One connection served by a protocol handler
\* (src/server.py and src/server/server.py)
\* ------------------------------------------------------------------------
\* the cap on one request, 1024 bytes in both servers, scaled down so that
\* an oversized request stays small
MAX_PAYLOAD_SIZE == 8
PKG_RECV_LIMIT == 4096

RESPONSE_FOUND == "STRING EXISTS"
RESPONSE_NOT_FOUND == "STRING NOT FOUND"
RESPONSE_ERROR_ENCODING == "ERROR: Invalid character encoding"
RESPONSE_ERROR_PAYLOAD == "ERROR: Payload too large"
RESPONSE_ERROR_EMPTY == "ERROR: Empty request"
RESPONSE_ERROR_INTERNAL == "ERROR: Internal server error"

Impls == {"server.py", "server/server.py"}

\* algorithm_map.get(config.search_algorithm.lower(), InMemorySearch): the
\* map of server/server.py has no 'grep' entry
AlgorithmClass(im, name) == IF im = "server/server.py" /\ name = "grep" THEN "inmemory" ELSE name

\* the query initialize_algorithms searches to warm the engine up
\* ("__DUMMY_INIT_QUERY__", here two underscores)
DummyInitQuery == << 95, 95 >>

\* the result of one pass through the handler's loop body: the response
\* written (or "none"), where the handler goes next, the engine after it,
\* and the queries passed to the engine (none or one)
HRet(resp, next, e, qs) == [resp |-> resp, next |-> next, eng |-> e, qs |-> qs]

\* RESPONSE_FOUND if result else RESPONSE_NOT_FOUND; an exception raised by
\* search is answered with the internal error
SearchResponse(s) == IF ~s.ok THEN RESPONSE_ERROR_INTERNAL ELSE IF s.found THEN RESPONSE_FOUND ELSE RESPONSE_NOT_FOUND

\* SearchHandler._receive_request_optimized of server.py on one received
\* chunk: the first line of it, a short chunk as it is, or "too large"
ReceiveRequestOptimized(chunk) ==
  IF Contains(chunk, LF) THEN [ok |-> TRUE, data |-> RStripSet(SubSeq(chunk, 1, FirstIndex(chunk, LF) - 1), {NUL, CR})]
  ELSE IF Len(chunk) < MAX_PAYLOAD_SIZE THEN [ok |-> TRUE, data |-> RStripSet(chunk, {NUL, CR})]
  ELSE [ok |-> FALSE, data |-> << >>]

\* SearchHandler._extract_query_fast of server.py, after the strip
ExtractQueryFast(clean_data, case_sensitive) == IF case_sensitive THEN clean_data ELSE Lower(clean_data)

\* the body of the while loop of SearchHandler.handle in server.py once
\* recv returned a non-empty chunk
HandleBodyOpt(s, e, clean_data, rr) ==
  IF ~rr.ok THEN HRet(RESPONSE_ERROR_PAYLOAD, "closed", e, << >>)
  ELSE IF Len(clean_data) = 0 THEN HRet(RESPONSE_ERROR_EMPTY, "closed", e, << >>)
  ELSE IF ~ValidUtf8(clean_data) THEN HRet(RESPONSE_ERROR_ENCODING, "recv", e, << >>)
  ELSE HRet(SearchResponse(s), "recv", s.eng, << ExtractQueryFast(clean_data, cfg.case_sensitive) >>)

HandleOptOn(chunk, rr) ==
  \E clean_data \in {RStripSet(rr.data, {NUL, CR, LF, SP})} :
  \E s \in {IF rr.ok /\ Len(clean_data) > 0 /\ ValidUtf8(clean_data)
            THEN Search(eng, fs, ExtractQueryFast(clean_data, cfg.case_sensitive))
            ELSE SRet(eng, TRUE, FALSE)} :
  \E h \in {HandleBodyOpt(s, eng, clean_data, rr)} :
    /\ out' = Append(out, h.resp)
    /\ hpc' = h.next
    /\ eng' = h.eng
    /\ searched' = searched \o h.qs

\* one iteration of the loop of SearchHandler.handle (server.py): a recv of
\* at most MAX_PAYLOAD_SIZE bytes and the processing of what it returned
HandleOpt ==
  /\ impl = "server.py"
  /\ hpc = "recv"
  /\ Len(inbuf) > 0 \/ clientClosed
  /\ IF Len(inbuf) = 0
     THEN /\ hpc' = "closed"
          /\ UNCHANGED << inbuf, out, eng, searched >>
     ELSE \E n \in {IF Len(inbuf) < MAX_PAYLOAD_SIZE THEN Len(inbuf) ELSE MAX_PAYLOAD_SIZE} :
            /\ inbuf' = SubSeq(inbuf, n + 1, Len(inbuf))
            /\ HandleOptOn(SubSeq(inbuf, 1, n), ReceiveRequestOptimized(SubSeq(inbuf, 1, n)))
  /\ UNCHANGED << fs, last, ghost, impl, cfg, wire, data, sent, clientClosed, poolVars, serverVars >>

\* recv raises socket.timeout: only the TLS setup of server.py sets a
\* timeout (1 second for data operations); the handler leaves its loop
RecvTimeoutOpt ==
  /\ impl = "server.py"
  /\ cfg.use_ssl
  /\ hpc = "recv"
  /\ Len(inbuf) = 0
  /\ ~clientClosed
  /\ hpc' = "timedout"
  /\ UNCHANGED << fs, eng, last, ghost, impl, cfg, wire, inbuf, data, out, searched, sent, clientClosed, poolVars, serverVars >>

\* SearchHandler._process_valid_query of server/server.py
ProcessValidQuery(query, case_sensitive) == IF case_sensitive THEN query ELSE Lower(query)

\* what handle of server/server.py does with the payload _receive_request
\* returned: decode, strip, then the empty reply or the search
HandleBodyPkg(s, e, payload, query) ==
  IF ~ValidUtf8(payload) THEN HRet(RESPONSE_ERROR_ENCODING, "closed", e, << >>)
  ELSE IF Len(query) = 0 THEN HRet(RESPONSE_ERROR_EMPTY, "recv", e, << >>)
  ELSE IF ~s.ok THEN HRet(RESPONSE_ERROR_INTERNAL, "closed", s.eng, << ProcessValidQuery(query, cfg.case_sensitive) >>)
  ELSE HRet(SearchResponse(s), "recv", s.eng, << ProcessValidQuery(query, cfg.case_sensitive) >>)

HandlePkgOn(payload, query) ==
  \E s \in {IF ValidUtf8(payload) /\ Len(query) > 0
            THEN Search(eng, fs, ProcessValidQuery(query, cfg.case_sensitive))
            ELSE SRet(eng, TRUE, FALSE)} :
  \E h \in {HandleBodyPkg(s, eng, payload, query)} :
    /\ out' = Append(out, h.resp)
    /\ hpc' = h.next
    /\ eng' = h.eng
    /\ searched' = searched \o h.qs

\* one recv of SearchHandler._receive_request (server/server.py) and what
\* follows it up to the next recv: the chunk is checked and added to the
\* payload; a chunk with a newline completes the request, which handle then
\* answers; a payload that reached MAX_PAYLOAD_SIZE is refused
RecvPkgOn(chunk) ==
  IF Contains(chunk, LF) /\ ~ValidUtf8(SubSeq(chunk, 1, FirstIndex(chunk, LF) - 1))
  THEN /\ out' = Append(out, RESPONSE_ERROR_ENCODING)
       /\ hpc' = "closed"
       /\ UNCHANGED << data, eng, searched >>
  ELSE IF Contains(chunk, LF)
  THEN /\ data' = << >>
       /\ HandlePkgOn(RStripSet(data \o chunk, {NUL}), Strip(RStripSet(data \o chunk, {NUL})))
  ELSE IF MAX_PAYLOAD_SIZE - Len(data \o chunk) <= 0
  THEN /\ out' = Append(out, RESPONSE_ERROR_PAYLOAD)
       /\ hpc' = "closed"
       /\ UNCHANGED << data, eng, searched >>
  ELSE /\ data' = data \o chunk
       /\ UNCHANGED << out, hpc, eng, searched >>

Min(a, b) == IF a < b THEN a ELSE b

RecvPkg ==
  /\ impl = "server/server.py"
  /\ hpc = "recv"
  /\ Len(inbuf) > 0 \/ clientClosed
  /\ IF Len(inbuf) = 0
     THEN /\ hpc' = "closed"
          /\ UNCHANGED << inbuf, data, out, eng, searched >>
     ELSE \E n \in {Min(Len(inbuf), Min(MAX_PAYLOAD_SIZE - Len(data), PKG_RECV_LIMIT))} :
            /\ inbuf' = SubSeq(inbuf, n + 1, Len(inbuf))
            /\ RecvPkgOn(SubSeq(inbuf, 1, n))
  /\ UNCHANGED << fs, last, ghost, impl, cfg, wire, sent, clientClosed, poolVars, serverVars >>

\* the certificate and key files cannot be loaded (load_cert_chain raises)
BadTlsMaterial == cfg.use_ssl /\ cfg.ssl_cert = "invalid"

\* run_server up to serve_forever. server.py loads the TLS context
\* (SSLHandler.initialize_ssl_context) and returns when that raises; it
\* builds the configured engine in
\* SearchAlgorithmManager.initialize_algorithms (class(path, reread), no
\* case option) and runs a dummy search whose errors are ignored; a failing
\* constructor ends run_server before the socket is bound. server/server.py
\* builds nothing before the first connection.
RunServer ==
  /\ hpc = "off"
  /\ IF impl = "server.py" /\ BadTlsMaterial
     THEN /\ eng' = eng
          /\ hpc' = "failed"
     ELSE IF impl = "server.py"
     THEN \E k \in {Construct(AlgorithmClass(impl, cfg.search_algorithm), fs, cfg.reread_on_query, FALSE, TRUE)} :
            IF k.ok
            THEN /\ eng' = Search(k.eng, fs, DummyInitQuery).eng
                 /\ hpc' = "listening"
            ELSE /\ eng' = NoEngine
                 /\ hpc' = "failed"
     ELSE /\ eng' = eng
          /\ hpc' = "listening"
  /\ UNCHANGED << fs, last, ghost, impl, cfg, wire, inbuf, data, out, searched, sent, clientClosed, poolVars, serverVars >>

\* SearchHandler.setup for an accepted connection. server.py takes the
\* pre-built engine (get_algorithm) and sets its reread flag; server/server.py
\* builds the engine on the first connection (algorithm_instances) and sets
\* the flag. An exception in setup ends the handler before handle runs and
\* the connection is closed by process_request_thread; in server/server.py
\* setup loads the certificate for each connection (load_cert_chain) first.
Setup ==
  /\ hpc = "listening"
  /\ IF impl = "server/server.py" /\ BadTlsMaterial
     THEN /\ eng' = eng
          /\ hpc' = "closed"
     ELSE IF impl = "server.py" \/ eng.algo # "none"
     THEN /\ eng' = [eng EXCEPT !.reread_on_query = cfg.reread_on_query]
          /\ hpc' = "recv"
     ELSE \E k \in {Construct(AlgorithmClass(impl, cfg.search_algorithm), fs, cfg.reread_on_query, FALSE, TRUE)} :
            IF k.ok
            THEN /\ eng' = [k.eng EXCEPT !.reread_on_query = cfg.reread_on_query]
                 /\ hpc' = "recv"
            ELSE /\ eng' = NoEngine
                 /\ hpc' = "closed"
  /\ UNCHANGED << fs, last, ghost, impl, cfg, wire, inbuf, data, out, searched, sent, clientClosed, poolVars, serverVars >>

\* ------------------------------------------------------------------------
\* The client of the connection: it sends one message, waits for the reply,
\* and sends the next; the network may deliver a message in two segments
\* ------------------------------------------------------------------------
Filler == [i \in 1..MAX_PAYLOAD_SIZE |-> LowerX]
\* the queries a client sends: the longest words
ClientQueries == {q \in Queries : Len(q) = MaxWordLen}
QueryLines == {q \o << LF >> : q \in ClientQueries}
EmptyLine == << LF >>
InvalidLine == << BAD, LF >>
Messages == QueryLines \cup {EmptyLine, InvalidLine, Filler}
Splits == {0, 1, MAX_PAYLOAD_SIZE \div 2}

ClientSend(msg, split) ==
  /\ hpc = "recv"
  /\ ~clientClosed
  /\ Len(sent) < MaxSends
  /\ Len(out) >= Len(sent)
  /\ Len(wire) = 0 /\ Len(inbuf) = 0 /\ Len(data) = 0
  /\ split < Len(msg)
  /\ sent' = Append(sent, [msg |-> msg, split |-> split])
  /\ inbuf' = IF split = 0 THEN msg ELSE SubSeq(msg, 1, split)
  /\ wire' = IF split = 0 THEN << >> ELSE SubSeq(msg, split + 1, Len(msg))
  /\ UNCHANGED << fs, eng, last, ghost, impl, cfg, hpc, data, out, searched, clientClosed, poolVars, serverVars >>

\* the second segment of a message reaches the server
Deliver ==
  /\ Len(wire) > 0
  /\ inbuf' = inbuf \o wire
  /\ wire' = << >>
  /\ UNCHANGED << fs, eng, last, ghost, impl, cfg, hpc, data, out, searched, sent, clientClosed, poolVars, serverVars >>

\* the client closes its side of the connection
ClientClose ==
  /\ hpc \in {"recv", "closed", "timedout"}
  /\ ~clientClosed
  /\ Len(wire) = 0 /\ Len(inbuf) = 0
  /\ clientClosed' = TRUE
  /\ UNCHANGED << fs, eng, last, ghost, impl, cfg, hpc, wire, inbuf, data, out, searched, sent, poolVars, serverVars >>

\* the corpus files a server is started on: one line, and one file that is
\* not valid UTF-8
ServerFiles == {JoinLines(<< w >>) : w \in ClientQueries} \cup {<< BAD, LF >>}

\* the configurations: ssl_cert says whether load_cert_chain accepts the
\* certificate and key files, which matters with use_ssl only
Configs ==
  {c \in [search_algorithm : Algorithms, reread_on_query : BOOLEAN, case_sensitive : BOOLEAN, use_ssl : BOOLEAN, ssl_cert : {"valid", "invalid"}] :
     IF c.use_ssl THEN TRUE ELSE c.ssl_cert = "valid"}

InitHandler ==
  /\ fs \in {[content |-> c, mtime |-> 1] : c \in ServerFiles}
  /\ eng = NoEngine
  /\ last = NoOp
  /\ ghost = NoGhost
  /\ impl \in Impls
  /\ cfg \in Configs
  /\ hpc = "off"
  /\ wire = << >>
  /\ inbuf = << >>
  /\ data = << >>
  /\ out = << >>
  /\ searched = << >>
  /\ sent = << >>
  /\ clientClosed = FALSE
  /\ PoolIdle
  /\ maxWorkers = MaxWorkers

NextHandler ==
  \/ RunServer
  \/ Setup
  \/ \E msg \in Messages, split \in Splits : ClientSend(msg, split)
  \/ Deliver
  \/ HandleOpt
  \/ RecvTimeoutOpt
  \/ RecvPkg
  \/ ClientClose

SpecHandler == InitHandler /\ [][NextHandler]_vars

\* -- clients that pad their lines ---------------------------------------------
\* what a client puts between the query and the terminator
Pads == {<< CR >>, << NUL >>, << NUL, CR >>, << CR, NUL >>}

PaddedLines == {q \o p \o << LF >> : q \in ClientQueries, p \in Pads}

NextHandlerPadded ==
  \/ RunServer
  \/ Setup
  \/ \E msg \in PaddedLines : ClientSend(msg, 0)
  \/ HandleOpt
  \/ RecvTimeoutOpt
  \/ RecvPkg
  \/ ClientClose

SpecHandlerPadded == InitHandler /\ [][NextHandlerPadded]_vars

\* the same with the steps of the server and of the network taken whenever
\* they stay possible: the threads of the server run, a read with a
\* timeout returns when the timeout expires, and segments in flight
\* arrive; nothing obliges the client to send or to close
SpecHandlerFair ==
  /\ SpecHandler
  /\ WF_vars(RunServer)
  /\ WF_vars(Setup)
  /\ WF_vars(Deliver)
  /\ WF_vars(HandleOpt)
  /\ WF_vars(RecvTimeoutOpt)
  /\ WF_vars(RecvPkg)

\* ------------------------------------------------------------------------
\* The engine registry and the thread pool
\* (SearchAlgorithmManager and ThreadPoolMixIn of src/server.py,
\*  SearchHandler.algorithm_instances and ThreadPoolMixIn of
\*  src/server/server.py), while the server is serving (_shutdown is False)
\* ------------------------------------------------------------------------
\* the capacity of _requests, 1000 in both servers, scaled down so that a
\* few connections fill it
REQUEST_QUEUE_SIZE == 1

RESPONSE_BUSY == "ERROR: Server too busy"
RESPONSE_ERROR_SSL_HANDSHAKE == "ERROR: SSL handshake failed"

\* an engine instance of the registry: the key it was built for and its state
Instance(key, e) == [key |-> key, eng |-> e]

\* SearchAlgorithmManager.initialize_algorithms(config): returns at once
\* when _initialized is set; otherwise builds the engine of the configured
\* key, runs the dummy search and sets _initialized. An exception of the
\* constructor propagates and nothing is stored.
InitializeAlgorithms(key, reread) ==
  IF initialized THEN UNCHANGED << registry, initialized, heap >>
  ELSE \E k \in {Construct(AlgorithmClass("server.py", key), fs, reread, FALSE, TRUE)} :
         IF k.ok
         THEN /\ heap' = Append(heap, Instance(key, Search(k.eng, fs, DummyInitQuery).eng))
              /\ registry' = [registry EXCEPT ![key] = Len(heap) + 1]
              /\ initialized' = TRUE
         ELSE UNCHANGED << registry, initialized, heap >>

\* the workers one request processor stands for: num_processors is
\* max_workers // 8 in server.py, scaled down so that a small executor has
\* more than one processor
WorkersPerProcessor == 1

\* ThreadPoolMixIn.__init__: min(8, max(1, max_workers // 8)) processors in
\* server.py, one in server/server.py
NumProcessors ==
  IF impl = "server.py" THEN Min(8, Max(1, maxWorkers \div WorkersPerProcessor)) ELSE 1

\* run_server for a configuration with this key, in a process that may
\* have run a server before: server.py initializes the registry and does
\* not serve when that raises; server/server.py builds nothing. The
\* server's constructor starts the request processors.
StartServer(key) ==
  /\ key \notin servers
  /\ IF impl = "server.py"
     THEN /\ InitializeAlgorithms(key, cfg.reread_on_query)
          /\ servers' = IF initialized \/ Construct(AlgorithmClass("server.py", key), fs, cfg.reread_on_query, FALSE, TRUE).ok THEN servers \cup {key} ELSE servers
     ELSE /\ servers' = servers \cup {key}
          /\ UNCHANGED << registry, initialized, heap >>
  /\ proc' = IF servers' = servers THEN proc ELSE [p \in Processors |-> IF p <= NumProcessors THEN "top" ELSE "absent"]
  /\ UNCHANGED << engineVars, connVars, requests, backlog, conn, worker, maxWorkers, shutdown, sclose >>

\* the connection a worker's handler serves is marked failed
MarkFailed(w) == IF worker[w].conn = 0 THEN conn ELSE [conn EXCEPT ![worker[w].conn].failed = TRUE]

\* setup with use_ssl: the TLS handshake (_setup_high_speed_ssl of
\* server.py, wrap_socket of server/server.py) fails or times out and the
\* exception leaves setup; on an ssl.SSLError server.py first sends its
\* handshake error line
HandshakeFails(w, sslError) ==
  /\ worker[w].pc = "setup"
  /\ cfg.use_ssl
  /\ worker' = [worker EXCEPT ![w].pc = "raised"]
  /\ conn' = IF impl = "server.py" /\ sslError
             THEN [conn EXCEPT ![worker[w].conn].resp = Append(@, RESPONSE_ERROR_SSL_HANDSHAKE), ![worker[w].conn].failed = TRUE]
             ELSE MarkFailed(w)
  /\ UNCHANGED << engineVars, connVars, serverVars, registry, initialized, heap, servers, requests, backlog >>

\* setup of server.py: SearchAlgorithmManager.get_algorithm(config) raises
\* RuntimeError when the registry is not initialized or has no entry for
\* the key, else returns the entry with its reread flag set
GetAlgorithm(w) ==
  /\ impl = "server.py"
  /\ worker[w].pc = "setup"
  /\ IF ~initialized \/ registry[worker[w].key] = 0
     THEN /\ worker' = [worker EXCEPT ![w].pc = "raised"]
          /\ conn' = MarkFailed(w)
          /\ heap' = heap
     ELSE /\ worker' = [worker EXCEPT ![w].pc = "recv", ![w].inst = registry[worker[w].key]]
          /\ heap' = [heap EXCEPT ![registry[worker[w].key]].eng.reread_on_query = cfg.reread_on_query]
          /\ conn' = conn
  /\ UNCHANGED << engineVars, connVars, serverVars, registry, initialized, servers, requests, backlog >>

\* setup of server/server.py, the test `algo_key not in
\* self.algorithm_instances`
SetupCheck(w) ==
  /\ impl = "server/server.py"
  /\ worker[w].pc = "setup"
  /\ worker' = [worker EXCEPT ![w].pc = IF registry[worker[w].key] = 0 THEN "construct" ELSE "get"]
  /\ UNCHANGED << engineVars, connVars, serverVars, registry, initialized, heap, servers, requests, backlog, conn >>

\* setup of server/server.py, the call algorithm_class(path, reread), which
\* reads the corpus
SetupConstruct(w) ==
  /\ worker[w].pc = "construct"
  /\ \E k \in {Construct(AlgorithmClass("server/server.py", worker[w].key), fs, cfg.reread_on_query, FALSE, TRUE)} :
       IF k.ok
       THEN /\ heap' = Append(heap, Instance(worker[w].key, k.eng))
            /\ worker' = [worker EXCEPT ![w].pc = "store", ![w].inst = Len(heap) + 1]
            /\ conn' = conn
       ELSE /\ heap' = heap
            /\ worker' = [worker EXCEPT ![w].pc = "raised"]
            /\ conn' = MarkFailed(w)
  /\ UNCHANGED << engineVars, connVars, serverVars, registry, initialized, servers, requests, backlog >>

\* setup of server/server.py, the store into algorithm_instances[algo_key]
SetupStore(w) ==
  /\ worker[w].pc = "store"
  /\ registry' = [registry EXCEPT ![worker[w].key] = worker[w].inst]
  /\ worker' = [worker EXCEPT ![w].pc = "get"]
  /\ UNCHANGED << engineVars, connVars, serverVars, initialized, heap, servers, requests, backlog, conn >>

\* setup of server/server.py, self.search_algo =
\* self.algorithm_instances[algo_key] and the reread flag set on it
SetupGet(w) ==
  /\ worker[w].pc = "get"
  /\ worker' = [worker EXCEPT ![w].pc = "recv", ![w].inst = registry[worker[w].key]]
  /\ heap' = [heap EXCEPT ![registry[worker[w].key]].eng.reread_on_query = cfg.reread_on_query]
  /\ UNCHANGED << engineVars, connVars, serverVars, registry, initialized, servers, requests, backlog, conn >>

\* process_request_thread as it would be without the finally clause and
\* with a thread that ends on an exception: only a handler that returned
\* frees its thread and has its connection closed
ProcessRequestThreadNoFinally(w) ==
  /\ worker[w].pc \in {"raised", "done"}
  /\ worker' = [worker EXCEPT ![w] = IF worker[w].pc = "raised" THEN [NoWorker EXCEPT !.pc = "dead"] ELSE NoWorker]
  /\ conn' = IF worker[w].conn = 0 \/ worker[w].pc = "raised" THEN conn ELSE [conn EXCEPT ![worker[w].conn].st = "closed"]
  /\ UNCHANGED << engineVars, connVars, serverVars, registry, initialized, heap, servers, requests, backlog >>

\* process_request_thread: finish_request has returned or raised, the
\* finally clause closes the connection and the thread is free again
ProcessRequestThread(w) ==
  /\ worker[w].pc \in {"raised", "done"}
  /\ worker' = [worker EXCEPT ![w] = NoWorker]
  /\ conn' = IF worker[w].conn = 0 THEN conn ELSE [conn EXCEPT ![worker[w].conn].st = "closed"]
  /\ UNCHANGED << engineVars, connVars, serverVars, registry, initialized, heap, servers, requests, backlog >>

\* -- the registry alone: handlers of the servers of one process ------------
RegistryKeys == {"hash", "kmp"}

\* a thread starts the handler of a connection to the server of this key
BeginHandler(w, key) ==
  /\ key \in servers
  /\ worker[w].pc = "idle"
  /\ worker' = [worker EXCEPT ![w].pc = "setup", ![w].key = key]
  /\ UNCHANGED << engineVars, connVars, serverVars, registry, initialized, heap, servers, requests, backlog, conn >>

\* the client of that connection closes it: recv returns b'' and handle
\* returns
HandlerReturns(w) ==
  /\ worker[w].pc = "recv"
  /\ worker[w].conn = 0
  /\ worker' = [worker EXCEPT ![w].pc = "done"]
  /\ UNCHANGED << engineVars, connVars, serverVars, registry, initialized, heap, servers, requests, backlog, conn >>

PoolFiles == {JoinLines(<< << UpperA, LowerA >>, << LowerA, LowerA >> >>)}

InitRegistry ==
  /\ fs \in {[content |-> c, mtime |-> 1] : c \in PoolFiles}
  /\ eng = NoEngine
  /\ last = NoOp
  /\ ghost = NoGhost
  /\ impl \in Impls
  /\ cfg \in {[search_algorithm |-> "none", reread_on_query |-> r, case_sensitive |-> TRUE, use_ssl |-> FALSE, ssl_cert |-> "valid"] : r \in BOOLEAN}
  /\ hpc = "off"
  /\ wire = << >>
  /\ inbuf = << >>
  /\ data = << >>
  /\ out = << >>
  /\ searched = << >>
  /\ sent = << >>
  /\ clientClosed = FALSE
  /\ PoolIdle
  /\ maxWorkers = MaxWorkers

NextRegistry ==
  \/ \E key \in RegistryKeys : StartServer(key)
  \/ \E w \in Workers, key \in RegistryKeys : BeginHandler(w, key)
  \/ \E w \in Workers : GetAlgorithm(w)
  \/ \E w \in Workers : SetupCheck(w)
  \/ \E w \in Workers : SetupConstruct(w)
  \/ \E w \in Workers : SetupStore(w)
  \/ \E w \in Workers : SetupGet(w)
  \/ \E w \in Workers : HandlerReturns(w)
  \/ \E w \in Workers : ProcessRequestThread(w)

SpecRegistry == InitRegistry /\ [][NextRegistry]_vars

\* -- the pool: one server, its accept loop, request processor and threads --
\* the lines the clients send: a line of the corpus, a line absent from
\* it and a line that is not UTF-8
PoolQueries == {<< UpperA, LowerA >>, << UpperA, UpperA >>, << BAD >>}

\* a corpus whose second line cannot be decoded
UndecodableFile == << UpperA, LowerA, LF, BAD, LF >>

\* process_request as it would be without the bound: the connection is
\* queued whatever the length of the queue
ProcessRequestUnbounded(c, q) ==
  /\ servers # {}
  /\ sclose.pc # "closed"
  /\ conn[c].st = "new"
  /\ \A d \in Conns : d < c => conn[d].st # "new"
  /\ IF shutdown
     THEN /\ requests' = requests
          /\ conn' = [conn EXCEPT ![c].st = "dropped", ![c].query = q, ![c].late = TRUE]
     ELSE /\ requests' = Append(requests, c)
          /\ conn' = [conn EXCEPT ![c].st = "queued", ![c].query = q, ![c].full = Len(requests) >= REQUEST_QUEUE_SIZE]
  /\ UNCHANGED << engineVars, connVars, serverVars, registry, initialized, heap, servers, backlog, worker >>

\* the accept loop took connection c from the listening socket (its client
\* will send the line q) and calls process_request: it returns at once
\* when _shutdown is set, leaving the connection as it is; else a
\* non-blocking put into _requests; on queue.Full the busy line is sent
\* and the connection closed
ProcessRequest(c, q) ==
  /\ servers # {}
  /\ sclose.pc # "closed"
  /\ conn[c].st = "new"
  /\ \A d \in Conns : d < c => conn[d].st # "new"
  /\ IF shutdown
     THEN /\ requests' = requests
          /\ conn' = [conn EXCEPT ![c].st = "dropped", ![c].query = q, ![c].late = TRUE]
     ELSE IF Len(requests) < REQUEST_QUEUE_SIZE
     THEN /\ requests' = Append(requests, c)
          /\ conn' = [conn EXCEPT ![c].st = "queued", ![c].query = q, ![c].full = FALSE]
     ELSE /\ requests' = requests
          /\ conn' = [conn EXCEPT ![c].st = "closed", ![c].query = q, ![c].full = TRUE, ![c].resp = << RESPONSE_BUSY >>]
  /\ UNCHANGED << engineVars, connVars, serverVars, registry, initialized, heap, servers, backlog, worker >>

\* one round of a request processor: _requests.get, then
\* _thread_pool.submit, which appends to the executor's own queue
ProcessRequests ==
  /\ Len(requests) > 0
  /\ requests' = Tail(requests)
  /\ backlog' = Append(backlog, Head(requests))
  /\ conn' = [conn EXCEPT ![Head(requests)].st = "submitted"]
  /\ UNCHANGED << engineVars, connVars, serverVars, registry, initialized, heap, servers, worker >>

\* the executor as it would be without max_workers: any thread that is
\* free takes the oldest submitted work
FinishRequestUnbounded(w) ==
  /\ worker[w].pc = "idle"
  /\ Len(backlog) > 0
  /\ backlog' = Tail(backlog)
  /\ worker' = [worker EXCEPT ![w].pc = "setup", ![w].conn = Head(backlog), ![w].key = cfg.search_algorithm]
  /\ conn' = [conn EXCEPT ![Head(backlog)].st = "handling", ![Head(backlog)].by = @ \cup {w}]
  /\ UNCHANGED << engineVars, connVars, serverVars, registry, initialized, heap, servers, requests >>

\* a free thread of the executor (it has max_workers threads) takes the
\* oldest submitted work:
\* process_request_thread calls finish_request, which constructs the
\* handler; its setup comes first
FinishRequest(w) ==
  /\ w <= maxWorkers
  /\ worker[w].pc = "idle"
  /\ Len(backlog) > 0
  /\ backlog' = Tail(backlog)
  /\ worker' = [worker EXCEPT ![w].pc = "setup", ![w].conn = Head(backlog), ![w].key = cfg.search_algorithm]
  /\ conn' = [conn EXCEPT ![Head(backlog)].st = "handling", ![Head(backlog)].by = @ \cup {w}]
  /\ UNCHANGED << engineVars, connVars, serverVars, registry, initialized, heap, servers, requests >>

\* where handle goes after a reply: an exception of the engine ends handle
\* in server/server.py (_handle_unexpected_error), an undecodable line ends
\* it too; server.py replies and reads on
AfterReply(ok) == IF ~ok /\ impl = "server/server.py" THEN "done" ELSE "recv"

\* the handler writes a reply to its own socket, self.request
Reply(w, resp, failed) == [conn EXCEPT ![worker[w].conn].resp = Append(@, resp), ![worker[w].conn].failed = @ \/ failed]

\* handle reads: the client's line arrives, or, the client having closed
\* after its reply, recv returns b'' and handle returns. A line that is
\* not UTF-8 gets the encoding error.
Recv(w) ==
  /\ worker[w].pc = "recv"
  /\ worker[w].conn # 0
  /\ IF Len(conn[worker[w].conn].resp) > 0
     THEN /\ worker' = [worker EXCEPT ![w].pc = "done"]
          /\ conn' = conn
     ELSE IF ~ValidUtf8(conn[worker[w].conn].query)
     THEN /\ worker' = [worker EXCEPT ![w].pc = AfterReply(FALSE)]
          /\ conn' = Reply(w, RESPONSE_ERROR_ENCODING, TRUE)
     ELSE /\ worker' = [worker EXCEPT ![w].pc = "search", ![w].q = ProcessValidQuery(conn[worker[w].conn].query, cfg.case_sensitive)]
          /\ conn' = conn
  /\ UNCHANGED << engineVars, connVars, serverVars, registry, initialized, heap, servers, requests, backlog >>

\* the peer resets the connection while handle waits in recv:
\* ConnectionResetError is caught by handle, which returns
PeerReset(w) ==
  /\ worker[w].pc = "recv"
  /\ worker[w].conn # 0
  /\ Len(conn[worker[w].conn].resp) = 0
  /\ worker' = [worker EXCEPT ![w].pc = "done"]
  /\ conn' = MarkFailed(w)
  /\ UNCHANGED << engineVars, connVars, serverVars, registry, initialized, heap, servers, requests, backlog >>

\* the engines whose reload empties the shared index and refills it line
\* by line (HashSearch, BloomFilterSearch); the others assign a complete
\* new object
RefillsInPlace(e) == e.reread_on_query /\ e.algo \in {"hash", "bloom"}

\* search_algo.search(query) of an engine that does not refill in place,
\* and the reply
SearchWhole(w) ==
  /\ worker[w].pc = "search"
  /\ ~RefillsInPlace(heap[worker[w].inst].eng)
  /\ \E s \in {Search(heap[worker[w].inst].eng, fs, worker[w].q)} :
       /\ heap' = [heap EXCEPT ![worker[w].inst].eng = s.eng]
       /\ worker' = [worker EXCEPT ![w].pc = AfterReply(s.ok)]
       /\ conn' = Reply(w, SearchResponse(s), ~s.ok)
  /\ UNCHANGED << engineVars, connVars, serverVars, registry, initialized, servers, requests, backlog >>

\* search with reread on, the start of _read_file: self._hash_set.clear(),
\* or a new filter and self._lines.clear()
ReadFileClear(w) ==
  /\ worker[w].pc = "search"
  /\ RefillsInPlace(heap[worker[w].inst].eng)
  /\ heap' = [heap EXCEPT ![worker[w].inst].eng.lineSet = {}, ![worker[w].inst].eng.bloom = BloomFilter(BLOOM_CAPACITY, BLOOM_ERROR_PPM)]
  /\ worker' = [worker EXCEPT ![w].pc = IF Len(BinaryLines(fs.content)) = 0 THEN "test" ELSE "reload", ![w].i = 1]
  /\ UNCHANGED << engineVars, connVars, serverVars, registry, initialized, servers, requests, backlog, conn >>

\* the key _read_file adds for a line of the file
ReloadKey(e, line) == IF e.algo = "bloom" /\ ~e.case_sensitive THEN Lower(RStrip(line)) ELSE RStrip(line)

\* one round of `for line in file` of _read_file: the line is decoded and
\* added; a line that does not decode raises RuntimeError out of search
ReadFileLine(w) ==
  /\ worker[w].pc = "reload"
  /\ \E line \in {BinaryLines(fs.content)[worker[w].i]} :
       IF ValidUtf8(line)
       THEN /\ heap' = [heap EXCEPT ![worker[w].inst].eng.lineSet = @ \cup {ReloadKey(heap[worker[w].inst].eng, line)},
                                    ![worker[w].inst].eng.bloom = IF heap[worker[w].inst].eng.algo = "bloom" THEN BloomAdd(@, ReloadKey(heap[worker[w].inst].eng, line)) ELSE @]
            /\ worker' = [worker EXCEPT ![w].pc = IF worker[w].i = Len(BinaryLines(fs.content)) THEN "test" ELSE "reload", ![w].i = @ + 1]
            /\ conn' = conn
       ELSE /\ heap' = heap
            /\ worker' = [worker EXCEPT ![w].pc = AfterReply(FALSE)]
            /\ conn' = Reply(w, RESPONSE_ERROR_INTERNAL, TRUE)
  /\ UNCHANGED << engineVars, connVars, serverVars, registry, initialized, servers, requests, backlog >>

\* what search of HashSearch or BloomFilterSearch returns after the reload
MembershipTest(e, query) ==
  IF e.algo = "bloom"
  THEN BloomContains(e.bloom, Fold(e, query)) /\ Fold(e, query) \in e.lineSet
  ELSE query \in e.lineSet

\* the end of search after the reload, `query in self._hash_set` (with the
\* filter for BloomFilterSearch), and the reply
SearchTest(w) ==
  /\ worker[w].pc = "test"
  /\ worker' = [worker EXCEPT ![w].pc = "recv"]
  /\ conn' = Reply(w, IF MembershipTest(heap[worker[w].inst].eng, worker[w].q) THEN RESPONSE_FOUND ELSE RESPONSE_NOT_FOUND, FALSE)
  /\ UNCHANGED << engineVars, connVars, serverVars, registry, initialized, heap, servers, requests, backlog >>

InitPool ==
  /\ fs \in {[content |-> c, mtime |-> 1] : c \in PoolFiles \cup {UndecodableFile}}
  /\ eng = NoEngine
  /\ last = NoOp
  /\ ghost = NoGhost
  /\ impl \in Impls
  /\ cfg \in [search_algorithm : Algorithms, reread_on_query : BOOLEAN, case_sensitive : {TRUE}, use_ssl : BOOLEAN, ssl_cert : {"valid"}]
  /\ hpc = "off"
  /\ wire = << >>
  /\ inbuf = << >>
  /\ data = << >>
  /\ out = << >>
  /\ searched = << >>
  /\ sent = << >>
  /\ clientClosed = FALSE
  /\ PoolIdle
  /\ maxWorkers \in 1..MaxWorkers

NextPool ==
  \/ StartServer(cfg.search_algorithm)
  \/ \E c \in Conns, q \in PoolQueries : ProcessRequest(c, q)
  \/ ProcessRequests
  \/ \E w \in Workers : FinishRequest(w)
  \/ \E w \in Workers, sslError \in BOOLEAN : HandshakeFails(w, sslError)
  \/ \E w \in Workers : GetAlgorithm(w)
  \/ \E w \in Workers : SetupCheck(w)
  \/ \E w \in Workers : SetupConstruct(w)
  \/ \E w \in Workers : SetupStore(w)
  \/ \E w \in Workers : SetupGet(w)
  \/ \E w \in Workers : Recv(w)
  \/ \E w \in Workers : PeerReset(w)
  \/ \E w \in Workers : SearchWhole(w)
  \/ \E w \in Workers : ReadFileClear(w)
  \/ \E w \in Workers : ReadFileLine(w)
  \/ \E w \in Workers : SearchTest(w)
  \/ \E w \in Workers : ProcessRequestThread(w)

SpecPool == InitPool /\ [][NextPool]_vars

\* -- the shutdown of a server ------------------------------------------------
\* the entry server_close puts into _requests for a processor, (None, None)
Sentinel == 0

\* the loop test as it would be with `while True`: only the sentinel ends
\* the loop
ProcessRequestsForever(p) ==
  /\ proc[p] = "top"
  /\ proc' = [proc EXCEPT ![p] = "get"]
  /\ UNCHANGED << engineVars, connVars, poolVars, maxWorkers, shutdown, sclose >>

\* _process_requests of processor p, the loop test `while not
\* self._shutdown`
ProcessRequestsTest(p) ==
  /\ proc[p] = "top"
  /\ proc' = [proc EXCEPT ![p] = IF shutdown THEN "exited" ELSE "get"]
  /\ UNCHANGED << engineVars, connVars, poolVars, maxWorkers, shutdown, sclose >>

\* _process_requests of processor p, the body of the loop:
\* _requests.get(timeout) raises queue.Empty on an empty queue and the
\* loop continues; the sentinel breaks the loop; a connection is submitted
\* to the executor, which raises RuntimeError once it was shut down (the
\* connection is then neither handled nor closed)
ProcessRequestsGet(p) ==
  /\ proc[p] = "get"
  /\ IF Len(requests) = 0
     THEN /\ proc' = [proc EXCEPT ![p] = "top"]
          /\ UNCHANGED << requests, backlog, conn >>
     ELSE /\ requests' = Tail(requests)
          /\ IF Head(requests) = Sentinel
             THEN /\ proc' = [proc EXCEPT ![p] = "exited"]
                  /\ UNCHANGED << backlog, conn >>
             ELSE /\ proc' = [proc EXCEPT ![p] = "top"]
                  /\ IF sclose.pc = "closed"
                     THEN /\ conn' = [conn EXCEPT ![Head(requests)].st = "dropped"]
                          /\ backlog' = backlog
                     ELSE /\ conn' = [conn EXCEPT ![Head(requests)].st = "submitted"]
                          /\ backlog' = Append(backlog, Head(requests))
  /\ UNCHANGED << engineVars, connVars, registry, initialized, heap, worker, servers, maxWorkers, shutdown, sclose >>

\* how full _requests is
QueueLevel == IF Len(requests) >= REQUEST_QUEUE_SIZE THEN "full" ELSE IF Len(requests) = 0 THEN "empty" ELSE "partial"

\* server_close, its first statement: _shutdown = True
ServerCloseBegin ==
  /\ servers # {}
  /\ sclose.pc = "no"
  /\ shutdown' = TRUE
  /\ sclose' = [pc |-> "put", k |-> 1, at |-> QueueLevel]
  /\ UNCHANGED << engineVars, connVars, poolVars, maxWorkers, proc >>

\* server_close, one sentinel for each processor: a non-blocking put whose
\* queue.Full is swallowed
ServerClosePut ==
  /\ sclose.pc = "put"
  /\ requests' = IF Len(requests) < REQUEST_QUEUE_SIZE THEN Append(requests, Sentinel) ELSE requests
  /\ sclose' = IF sclose.k >= NumProcessors THEN [sclose EXCEPT !.pc = "end"] ELSE [sclose EXCEPT !.k = @ + 1]
  /\ UNCHANGED << engineVars, connVars, registry, initialized, heap, backlog, conn, worker, servers, maxWorkers, shutdown, proc >>

\* server_close, after the joins with their timeouts:
\* _thread_pool.shutdown(wait=False) and super().server_close(), which
\* closes the listening socket
ServerCloseEnd ==
  /\ sclose.pc = "end"
  /\ sclose' = [sclose EXCEPT !.pc = "closed"]
  /\ UNCHANGED << engineVars, connVars, poolVars, maxWorkers, shutdown, proc >>

\* the line the clients of a closing server send
ShutdownQueries == {<< UpperA, LowerA >>}

InitShutdown ==
  /\ fs \in {[content |-> c, mtime |-> 1] : c \in PoolFiles}
  /\ eng = NoEngine
  /\ last = NoOp
  /\ ghost = NoGhost
  /\ impl \in Impls
  /\ cfg \in [search_algorithm : {"inmemory"}, reread_on_query : BOOLEAN, case_sensitive : {TRUE}, use_ssl : {FALSE}, ssl_cert : {"valid"}]
  /\ hpc = "off"
  /\ wire = << >>
  /\ inbuf = << >>
  /\ data = << >>
  /\ out = << >>
  /\ searched = << >>
  /\ sent = << >>
  /\ clientClosed = FALSE
  /\ PoolIdle
  /\ maxWorkers \in 1..MaxWorkers

NextShutdown ==
  \/ StartServer(cfg.search_algorithm)
  \/ \E c \in Conns, q \in ShutdownQueries : ProcessRequest(c, q)
  \/ \E p \in Processors : ProcessRequestsTest(p)
  \/ \E p \in Processors : ProcessRequestsGet(p)
  \/ ServerCloseBegin
  \/ ServerClosePut
  \/ ServerCloseEnd
  \/ \E w \in Workers : FinishRequest(w)
  \/ \E w \in Workers : GetAlgorithm(w)
  \/ \E w \in Workers : SetupCheck(w)
  \/ \E w \in Workers : SetupConstruct(w)
  \/ \E w \in Workers : SetupStore(w)
  \/ \E w \in Workers : SetupGet(w)
  \/ \E w \in Workers : Recv(w)
  \/ \E w \in Workers : PeerReset(w)
  \/ \E w \in Workers : SearchWhole(w)
  \/ \E w \in Workers : ProcessRequestThread(w)

SpecShutdown == InitShutdown /\ [][NextShutdown]_vars

\* the threads of the server are scheduled and the timeouts of get expire
SpecShutdownFair ==
  /\ SpecShutdown
  /\ \A p \in Processors : WF_vars(ProcessRequestsTest(p))
  /\ \A p \in Processors : WF_vars(ProcessRequestsGet(p))
  /\ WF_vars(ServerClosePut) /\ WF_vars(ServerCloseEnd)

\* ------------------------------------------------------------------------
\* Properties of the engines
\* ------------------------------------------------------------------------
\* the corpus as the specification defines it: the lines of the file with
\* their line terminators stripped
CorpusLines(content) == {RStripSet(l, {LF, CR}) : l \in Range(BinaryLines(content))}

\* q is a case variant of some corpus line
CaseVariantOfLine(content, q) == \E l \in CorpusLines(content) : Lower(l) = Lower(q)

\* C1: an engine constructed with reread disabled and default case
\* sensitivity answers true for every (non-empty) line of the corpus and
\* false for every non-empty string that is not a line of the corpus
C1_ExactMembership ==
  (last.op = "search" /\ ~eng.reread_on_query /\ ~ghost.csGiven /\ ~ghost.appended /\ last.query # << >>)
    => (last.ok /\ (last.found <=> last.query \in CorpusLines(ghost.built)))

\* C7: a search for a line that is in the file only because it was appended
\* after construction returns true iff reread_on_query is enabled
C7_AppendedLineVisibleIffReread ==
  (/\ last.op = "search"
   /\ ghost.appended
   /\ ~ghost.csGiven
   /\ last.query # << >>
   /\ last.query \in CorpusLines(fs.content)
   /\ last.query \notin CorpusLines(ghost.built))
    => (last.ok /\ (last.found <=> eng.reread_on_query))

\* C8: with reread enabled a search answers from the file as it is at the
\* time of the call, never from a previously loaded corpus
C8_RereadReflectsFile ==
  (last.op = "search" /\ eng.reread_on_query /\ last.query # << >>)
    => (last.ok /\ (last.found <=> IF eng.case_sensitive
                                    THEN last.query \in CorpusLines(fs.content)
                                    ELSE CaseVariantOfLine(fs.content, last.query)))

\* C9: every engine can be constructed with case_sensitive given; when it
\* is false every case variant of a corpus line is found, when it is true a
\* case variant that is not itself a corpus line is not found
C9_CaseSensitivityOption ==
  /\ (last.op = "construct" /\ ghost.csGiven) => last.ok
  /\ (last.op = "search" /\ ghost.csGiven /\ ~eng.reread_on_query /\ ~ghost.appended /\ last.query # << >>)
       => /\ last.ok
          /\ (~eng.case_sensitive /\ CaseVariantOfLine(ghost.built, last.query)) => last.found
          /\ (eng.case_sensitive /\ last.query \notin CorpusLines(ghost.built)) => ~last.found

\* C11: an engine constructed on an empty corpus file, the file staying
\* empty, returns false for every query, the empty string included, and
\* never raises, with reread disabled and with reread enabled
C11_EmptyCorpusNothingFound ==
  (last.op = "search" /\ Len(ghost.built) = 0 /\ Len(fs.content) = 0)
    => (last.ok /\ ~last.found)

\* the file the engine's lines were last loaded from: the file as it is with
\* reread on, the file as it was at construction without
LoadedFrom == IF eng.reread_on_query THEN fs.content ELSE ghost.built

\* the lines BloomFilterSearch loads from a file: stripped of trailing
\* whitespace and lower-cased when the engine is case-insensitive
BloomLoadedLines(content) == {Fold(eng, RStrip(l)) : l \in Range(BinaryLines(content))}

\* C23: a search of BloomFilterSearch that returns, returns true iff the
\* query (lower-cased when the engine is case-insensitive) is one of the
\* loaded lines: no false negative for a loaded line, no true for an
\* absent key, hence no false positive at all
C23_BloomExactMembership ==
  (last.op = "search" /\ last.algo = "bloom" /\ last.ok)
    => /\ eng.lineSet = BloomLoadedLines(LoadedFrom)
       /\ last.found <=> Fold(eng, last.query) \in eng.lineSet

\* a search for an absent key that the filter alone would have accepted
C23_Witness ==
  /\ last.op = "search" /\ last.algo = "bloom" /\ last.ok
  /\ ~last.found
  /\ BloomContains(eng.bloom, Fold(eng, last.query))
  /\ eng.lineSet # {}

\* no line of the corpus has the length of q
LengthsDiffer(content, q) == \A l \in CorpusLines(content) : Len(l) # Len(q)

\* C25: a search of BoyerMoore, KMP or RabinKarp for a query whose length
\* differs from the length of every corpus line returns false and leaves
\* the comparisons counter at 0
C25_LengthMismatchNoComparison ==
  (/\ last.op = "search"
   /\ last.algo \in {"boyermoore", "kmp", "rabinkarp"}
   /\ LengthsDiffer(ghost.built, last.query)
   /\ LengthsDiffer(fs.content, last.query))
    => (last.ok /\ ~last.found /\ Comparisons(eng, last.query, 1) = 0)

\* each element is followed by one that is not smaller
Ascending(s) == \A i \in 1..(Len(s) - 1) : ~StrLess(s[i + 1], s[i])

RECURSIVE BitLength(_)
\* int.bit_length: the loop halves the range, so it runs at most
\* bit_length(len(_sorted_lines)) times
BitLength(n) == IF n = 0 THEN 0 ELSE 1 + BitLength(n \div 2)

LastBinaryComparisons == BinaryComparisons(eng.sortedLines, Fold(eng, last.query), 0, Len(eng.sortedLines) - 1)

\* the last operation was a search of BinarySearch for one of its n >= 1
\* loaded lines
BinarySearchForLine ==
  /\ last.op = "search" /\ last.algo = "binary" /\ last.ok
  /\ Len(eng.sortedLines) >= 1
  /\ Fold(eng, last.query) \in Range(eng.sortedLines)

BMStop(line, query) == BMInner(line, query, Len(query) - 1, Len(query) - 1)

\* C32: a search of BoyerMoore returns; on every loaded line with the
\* length of the query a mismatch leaves the indices j and k inside the
\* query and the line, reads the good-suffix table inside its bounds and
\* shifts by at least 1; the good-suffix table is written inside its
\* bounds; the line is examined at exactly one alignment; and the result
\* is true iff some loaded line equals the query
C32_BoyerMooreOneAlignment ==
  (last.op = "search" /\ last.algo = "boyermoore") =>
    /\ last.ok
    /\ \A n \in 1..Len(eng.lines) : Len(eng.lines[n]) = Len(last.query) =>
          /\ BMStop(eng.lines[n], last.query)[1] # -1 =>
                /\ BMStop(eng.lines[n], last.query)[1] \in 0..(Len(last.query) - 1)
                /\ BMStop(eng.lines[n], last.query)[2] \in 0..(Len(eng.lines[n]) - 1)
                /\ (Len(last.query) - 1 - BMStop(eng.lines[n], last.query)[1] + 1) \in DOMAIN BuildGoodSuffixTable(last.query)
                /\ BMShiftBy(eng.lines[n], last.query, BuildBadCharTable(last.query), BuildGoodSuffixTable(last.query), BMStop(eng.lines[n], last.query)) >= 1
          /\ BMAlignments(eng.lines[n], last.query, BuildBadCharTable(last.query), BuildGoodSuffixTable(last.query), Len(last.query) - 1) = 1
    /\ \A i \in 0..(Len(last.query) - 2) : FindSuffixLength(last.query, i) + 1 \in 1..Len(last.query)
    /\ last.found <=> \E n \in 1..Len(eng.lines) : eng.lines[n] = last.query

\* a search whose query has three characters and mismatches an
\* equal-length line after matching its last character, another line
\* being the query
C32_Witness ==
  /\ last.op = "search" /\ last.algo = "boyermoore" /\ last.found
  /\ Len(last.query) = 3
  /\ \E n \in 1..Len(eng.lines) :
        /\ Len(eng.lines[n]) = Len(last.query)
        /\ BMStop(eng.lines[n], last.query)[1] \in 0..(Len(last.query) - 2)

\* C33: KMP._kmp_search(text, pattern), text being a loaded line and
\* pattern the query (both lower-cased when the engine is
\* case-insensitive), returns true iff text equals pattern
C33_KmpSearchIffEqual ==
  (last.op = "search" /\ last.algo = "kmp") =>
    \A n \in 1..Len(eng.lines) :
      KmpSearch(Fold(eng, eng.lines[n]), Fold(eng, last.query)) <=> (Fold(eng, eng.lines[n]) = Fold(eng, last.query))

\* the hash RabinKarp computes of a string over its whole length
RabinKarpHash(string) == CalculateHash(string, Len(string), << RK_BASE, RK_PRIME >>)

\* the lines RabinKarp.search scans: those before the first line that
\* equals the query, all of them when there is none
ScannedLines(e, query) ==
  {n \in 1..Len(e.lines) : \A k \in 1..(n - 1) : Fold(e, e.lines[k]) # Fold(e, query)}

\* C34: a search of RabinKarp returns true iff some loaded line equals the
\* query (both lower-cased when the engine is case-insensitive); the
\* hashes of the query and of the lines are in [0, prime); hash_collisions
\* counts the scanned lines of the query's length and hash that differ
\* from the query
C34_RabinKarpConfirmsHashMatch ==
  (last.op = "search" /\ last.algo = "rabinkarp") =>
    /\ last.ok
    /\ last.found <=> \E n \in 1..Len(eng.lines) : Fold(eng, eng.lines[n]) = Fold(eng, last.query)
    /\ RabinKarpHash(Fold(eng, last.query)) \in 0..(RK_PRIME - 1)
    /\ \A n \in 1..Len(eng.lines) : RabinKarpHash(Fold(eng, eng.lines[n])) \in 0..(RK_PRIME - 1)
    /\ HashCollisions(eng, last.query, 1) =
         Cardinality({n \in ScannedLines(eng, last.query) :
                        /\ Len(eng.lines[n]) = Len(last.query)
                        /\ RabinKarpHash(Fold(eng, eng.lines[n])) = RabinKarpHash(Fold(eng, last.query))
                        /\ Fold(eng, eng.lines[n]) # Fold(eng, last.query)})

\* a search that is false although a line has the hash of the query
C34_Witness ==
  /\ last.op = "search" /\ last.algo = "rabinkarp" /\ last.ok /\ ~last.found
  /\ HashCollisions(eng, last.query, 1) >= 1

\* q equals a whole line of the corpus, letter case ignored when the engine
\* is case-insensitive
WholeLineOf(content, q) ==
  IF eng.case_sensitive THEN q \in CorpusLines(content) ELSE CaseVariantOfLine(content, q)

\* C35: a search of GrepSearch returns true iff the query equals a whole
\* line of the corpus file as it is at the time of the query with reread
\* enabled, of the file as it was at construction with reread disabled,
\* for both case settings
C35_GrepWholeLineBothModes ==
  (last.op = "search" /\ last.algo = "grep") =>
    /\ last.ok
    /\ last.found <=> WholeLineOf(LoadedFrom, last.query)

\* what an engine of class algo, constructed on the same file with the
\* same reread and case settings, returns for the last query
AnswerOf(algo) ==
  Search(Construct(algo, [content |-> ghost.built, mtime |-> fs.mtime], eng.reread_on_query, ghost.csGiven, eng.case_sensitive).eng,
         fs, last.query)

\* the classes whose constructor takes the settings the engine was given
SameSettings == {algo \in Algorithms : ghost.csGiven => AcceptsCaseSensitive(algo)}

\* C36: for every corpus file and query, an engine of any other class with
\* the same reread and case settings returns what the engine returned
\* (the file not having changed since the construction)
C36_EnginesInterchangeable ==
  (last.op = "search" /\ last.ok /\ ~ghost.appended) =>
    \A algo \in SameSettings : AnswerOf(algo).ok /\ (AnswerOf(algo).found <=> last.found)

\* C37: a search for a line of the corpus file (the file not changing)
\* returns true, whatever flag the engine was constructed with and however
\* often reread_on_query was reassigned before the search
C37_FlagHistoryKeepsLines ==
  (last.op = "search" /\ last.query \in CorpusLines(fs.content)) => (last.ok /\ last.found)

\* the reload a search of this engine would make fails: the _read_file of
\* its class raises, or (BoyerMoore) meets an exception it swallows
ReloadFails(e, f) ==
  /\ e.algo # "none"
  /\ e.reread_on_query
  /\ IF e.algo = "boyermoore" THEN ~ValidUtf8(f.content) ELSE ~ReadFile(e, f).ok

\* what an engine has loaded
Index(e) == << e.lines, e.lineSet, e.sortedLines, e.cache, e.bloom.bits >>

\* C38: a search whose reload fails leaves what the engine had loaded
\* unchanged
C38_FailedReloadKeepsIndex ==
  [][(ReloadFails(eng, fs) /\ last'.op = "search" /\ fs' = fs) => Index(eng') = Index(eng)]_vars

\* the 0-based indices of c in p[0..m-2]
IndicesBeforeLast(p, c) == {i \in 0..(Len(p) - 2) : p[i + 1] = c}

\* the largest element of a non-empty set of integers
Greatest(S) == CHOOSE x \in S : \A y \in S : y <= x

\* C40: the bad-character table BoyerMoore builds of the pattern p of
\* length m has as keys exactly the characters of p[0..m-2], maps each to
\* m - 1 - i with i its last index in p[0..m-2], so that the lookup of any
\* other character gives the default m; for 'ABCDABD' it is
\* {A: 2, B: 1, C: 4, D: 3}
C40_BadCharTableLastOccurrence ==
  (last.op = "search" /\ last.algo = "boyermoore") =>
    /\ DOMAIN BuildBadCharTable(last.query) = {c \in Range(last.query) : IndicesBeforeLast(last.query, c) # {}}
    /\ \A c \in DOMAIN BuildBadCharTable(last.query) :
          BuildBadCharTable(last.query)[c] = Len(last.query) - 1 - Greatest(IndicesBeforeLast(last.query, c))
    /\ \A c \in {UpperA, UpperB, UpperC, UpperD, LowerA} :
          IndicesBeforeLast(last.query, c) = {} => BadCharShift(BuildBadCharTable(last.query), c, Len(last.query)) = Len(last.query)
    /\ last.query = TestPattern =>
          BuildBadCharTable(last.query) = (UpperA :> 2) @@ (UpperB :> 1) @@ (UpperC :> 4) @@ (UpperD :> 3)

\* the search for 'ABCDABD' on the file that holds it
C40_Witness ==
  /\ last.op = "search" /\ last.algo = "boyermoore" /\ last.found
  /\ last.query = TestPattern

\* C27: SimpleSearch.search(q) returns true iff q is not empty and equals
\* a complete line of the corpus, whatever the position of the line; the
\* empty query never matches
C27_SimpleSearchExactLine ==
  (last.op = "search" /\ last.algo = "simple" /\ ~ghost.appended)
    => /\ last.ok
       /\ last.found <=> (Len(last.query) > 0 /\ \E l \in CorpusLines(ghost.built) : l = last.query)

\* C24: the filter a BloomFilterSearch uses has the capacity and the error
\* rate its constructor was given, before the first load, after it and
\* after every reload
C24_BloomParametersKept ==
  eng.algo = "bloom" => (eng.bloom.capacity = ghost.capacity /\ eng.bloom.error_rate = ghost.error_rate)

\* ------------------------------------------------------------------------
\* Properties of the engine registry
\* ------------------------------------------------------------------------
\* the instances constructed for a key
InstancesOf(key) == {i \in 1..Len(heap) : heap[i].key = key}

\* the handler of this worker has obtained its engine
HoldsEngine(w) == worker[w].pc \in {"recv", "done"}

\* C12: under concurrent first access by several workers for one key the
\* engine of that key is constructed at most once, and the workers obtain
\* the same instance
C12_ConstructedAtMostOnce ==
  /\ \A key \in Algorithms : Cardinality(InstancesOf(key)) <= 1
  /\ \A w1 \in Workers, w2 \in Workers :
       (HoldsEngine(w1) /\ HoldsEngine(w2) /\ worker[w1].key = worker[w2].key) => worker[w1].inst = worker[w2].inst

\* no handler is between its test of the registry and its store
NoFirstAccessUnderWay(key) == \A w \in Workers : worker[w].key = key => worker[w].pc \notin {"construct", "store"}

\* C13: the registry maps each key to its own engine: a request for a key,
\* a second key after a first included, never fails to obtain an engine
\* and obtains one built for that key, the entry of a key is an instance
\* built for it, and once a key has its entry no later request builds
\* another engine for it
C13_RegistryMapsEachKey ==
  /\ [](\A w \in Workers : worker[w].pc # "raised")
  /\ [](\A w \in Workers : HoldsEngine(w) => worker[w].inst \in InstancesOf(worker[w].key))
  /\ [](\A key \in Algorithms : registry[key] # 0 => registry[key] \in InstancesOf(key))
  /\ [][\A key \in Algorithms : (registry[key] # 0 /\ NoFirstAccessUnderWay(key)) => InstancesOf(key)' = InstancesOf(key)]_vars

\* ------------------------------------------------------------------------
\* Properties of the thread pool
\* ------------------------------------------------------------------------
\* the connection is in the bounded queue
Queued(c) == \E i \in 1..Len(requests) : requests[i] = c

\* the connection is in the executor's queue
Submitted(c) == \E i \in 1..Len(backlog) : backlog[i] = c

\* C14: a connection accepted while the bounded queue is full is sent the
\* busy line and closed, is never queued, submitted or handled, and the
\* accept loop can take the next connection whatever the workers and the
\* engine are doing
C14_FullQueueSheds ==
  /\ \A c \in Conns : conn[c].full =>
        /\ conn[c].st = "closed"
        /\ conn[c].resp = << RESPONSE_BUSY >>
        /\ conn[c].by = {}
        /\ ~Queued(c) /\ ~Submitted(c)
        /\ \A w \in Workers : worker[w].conn # c
  /\ (servers # {} /\ \E c \in Conns : conn[c].st = "new") => ENABLED (\E c \in Conns, q \in PoolQueries : ProcessRequest(c, q))

\* a connection was accepted while the queue was full and was shed
C14_Witness == \E c \in Conns : conn[c].full /\ conn[c].st = "closed" /\ Len(requests) = REQUEST_QUEUE_SIZE

\* the accepted connections that wait for a worker
Waiting == {c \in Conns : conn[c].st \in {"queued", "submitted"}}

\* C15: at any time at most REQUEST_QUEUE_SIZE accepted connections wait
\* for a worker, and a connection accepted while that many wait is shed
\* with the busy line
C15_QueueBoundsWaiting ==
  /\ [](Cardinality(Waiting) <= REQUEST_QUEUE_SIZE)
  /\ [][\A c \in Conns : (Cardinality(Waiting) >= REQUEST_QUEUE_SIZE /\ conn[c].st = "new" /\ conn'[c].st # "new")
                             => (conn'[c].st = "closed" /\ conn'[c].resp = << RESPONSE_BUSY >>)]_vars

\* the reply a client is owed for its line: found when the line is a line
\* of the corpus, not found otherwise
OwnReply(c) == IF conn[c].query \in CorpusLines(fs.content) THEN RESPONSE_FOUND ELSE RESPONSE_NOT_FOUND

\* the connection was handled to its end without a failure of its own
Served(c) == conn[c].st = "closed" /\ ~conn[c].full /\ ~conn[c].failed

\* C16: with reread disabled, every one of the concurrent connections to
\* the same engine gets exactly the reply for its own line, found for a
\* line of the corpus and not found for another, and each accepted
\* connection is handled by exactly one worker
C16_OwnResponseUnderConcurrency ==
  (~cfg.reread_on_query /\ ValidUtf8(fs.content)) =>
     \A c \in Conns : Served(c) => (conn[c].resp = << OwnReply(c) >> /\ Cardinality(conn[c].by) = 1)

\* the engines that answer from a set built from the corpus
SetEngines == {"hash", "bloom", "inmemory"}

\* C17: with reread enabled and the corpus file unchanged, a search on the
\* shared engine for a line of the corpus returns true under every
\* interleaving with the reloads of other workers: no search sees a
\* partially rebuilt index (stated for the engines that answer from a set)
C17_NoPartialIndex ==
  (cfg.reread_on_query /\ ValidUtf8(fs.content) /\ cfg.search_algorithm \in SetEngines) =>
     \A c \in Conns : (conn[c].query \in CorpusLines(fs.content) /\ ~conn[c].full /\ Len(conn[c].resp) > 0) => conn[c].resp[1] = RESPONSE_FOUND

\* this step is a failure on connection c
FailsNow(c) == ~conn[c].failed /\ conn'[c].failed

\* C18: a failure while one connection is handled (TLS handshake, protocol
\* error, exception of the engine, reset by the peer) touches no other
\* connection, no other worker and no queue; the worker whose handler
\* raised closes that connection and is free again; and the accept loop
\* can still take the next connection
C18_FailureIsolated ==
  /\ [][\A c \in Conns : FailsNow(c) =>
           /\ \A d \in Conns \ {c} : conn'[d] = conn[d]
           /\ \A w \in Workers : worker[w].conn # c => worker'[w] = worker[w]
           /\ requests' = requests /\ backlog' = backlog /\ servers' = servers]_vars
  /\ [][\A w \in Workers : (worker[w].pc = "raised" /\ worker'[w] # worker[w]) =>
           (worker'[w] = NoWorker /\ conn'[worker[w].conn].st = "closed")]_vars
  /\ [](\A c \in Conns : (conn[c].failed /\ conn[c].st = "closed") => \A w \in Workers : worker[w].conn # c)
  /\ []((\E c \in Conns : conn[c].failed /\ \E d \in Conns : conn[d].st = "new") => ENABLED (\E d \in Conns, q \in PoolQueries : ProcessRequest(d, q)))

\* a connection failed and was closed, and the worker that handled it has
\* since served another connection to its end
C18_Witness ==
  \E c \in Conns, d \in Conns :
     /\ c # d
     /\ conn[c].failed /\ conn[c].st = "closed"
     /\ Served(d) /\ Len(conn[d].resp) > 0
     /\ conn[c].by = conn[d].by

\* the connections a handler is running for
Handling == {c \in Conns : conn[c].st = "handling"}

\* C29: never more connections in handling than the configured number of
\* workers; a worker serves one connection at a time, no connection has two
\* workers, a worker leaves a connection only when its handler has ended,
\* closing it, and takes a connection only when it is free
C29_WorkersBoundHandling ==
  /\ [](Cardinality(Handling) <= maxWorkers)
  /\ [](\A c \in Handling : Cardinality({w \in Workers : worker[w].conn = c}) = 1)
  /\ [](\A w \in Workers : worker[w].conn # 0 => worker[w].conn \in Handling)
  /\ [][\A w \in Workers : (worker[w].conn # 0 /\ worker'[w].conn # worker[w].conn) =>
           /\ worker[w].pc \in {"done", "raised"}
           /\ worker'[w] = NoWorker
           /\ conn'[worker[w].conn].st = "closed"]_vars
  /\ [][\A w \in Workers : (worker'[w].conn # 0 /\ worker'[w].conn # worker[w].conn) =>
           (worker[w] = NoWorker /\ w <= maxWorkers)]_vars

\* the one worker of the pool is busy with a connection while another
\* connection waits in the executor's queue
C29_Witness ==
  /\ maxWorkers = 1
  /\ Cardinality(Handling) = 1
  /\ \E c \in Conns : Submitted(c)

\* ------------------------------------------------------------------------
\* Properties of the startup
\* ------------------------------------------------------------------------
\* the loader of the configured engine raises on the corpus
CorpusUnreadable ==
  ~ReadFile(NewEngine(AlgorithmClass(impl, cfg.search_algorithm), FALSE, TRUE), fs).ok

\* C22: with certificate files that cannot be loaded, or a corpus the
\* configured engine cannot read, run_server stops before the listening
\* socket is bound: the server never listens and no connection is accepted
C22_StartupFaultsPreventStart ==
  (BadTlsMaterial \/ CorpusUnreadable) => hpc \in {"off", "failed"}

\* ------------------------------------------------------------------------
\* Properties of the shutdown
\* ------------------------------------------------------------------------
\* every request processor the server started has left its loop
ProcessorsExited == \A p \in Processors : proc[p] \in {"absent", "exited"}

\* connection c is in _requests, in the executor's queue or with a worker
EnqueuedOrHandled(c) ==
  \/ Queued(c)
  \/ Submitted(c)
  \/ conn[c].st \in {"queued", "submitted", "handling"}
  \/ conn[c].by # {}
  \/ \E w \in Workers : worker[w].conn = c

\* C21: once server_close was called every request processor eventually
\* leaves its loop, whether _requests was full or empty at that moment,
\* and the listening socket is eventually closed; a connection accepted
\* after the call is never put into the queue nor handed to a worker, and
\* none is accepted once the socket is closed
C21_ShutdownStopsServer ==
  /\ shutdown ~> ProcessorsExited
  /\ shutdown ~> (sclose.pc = "closed")
  /\ [](\A c \in Conns : conn[c].late => ~EnqueuedOrHandled(c))
  /\ [][shutdown => \A c \in Conns : (conn[c].st = "new" /\ conn'[c].st # "new") => (conn'[c].late /\ sclose.pc # "closed")]_vars

\* server_close found _requests full, has closed the socket, the
\* processors have left their loops and a connection came in between
C21_Witness ==
  /\ sclose.pc = "closed"
  /\ sclose.at = "full"
  /\ ProcessorsExited
  /\ \E c \in Conns : conn[c].late

\* C39: no accepted connection is left without being closed, a closed
\* connection stays closed, and every accepted connection is eventually
\* closed, the connections accepted while _shutdown is set, those in the
\* queue when server_close runs and those whose submission fails included
C39_EveryConnectionClosed ==
  /\ [](\A c \in Conns : conn[c].st # "dropped")
  /\ [][\A c \in Conns : conn[c].st = "closed" => conn'[c].st = "closed"]_vars
  /\ \A c \in Conns : (conn[c].st # "new") ~> (conn[c].st = "closed")

\* ------------------------------------------------------------------------
\* Properties of a connection
\* ------------------------------------------------------------------------
\* the handler waits for the next request and nothing is pending
Quiescent == hpc = "recv" /\ Len(wire) = 0 /\ Len(inbuf) = 0 /\ Len(data) = 0

\* the query of a query line: the line without its terminator
QueryOf(msg) == SubSeq(msg, 1, Len(msg) - 1)

AllQueryLines == \A i \in 1..Len(sent) : sent[i].msg \in QueryLines

\* the response line for what the engine's search of q returns now
EngineAnswer(q) == IF Search(eng, fs, ProcessValidQuery(q, cfg.case_sensitive)).found THEN RESPONSE_FOUND ELSE RESPONSE_NOT_FOUND

\* number of line terminators the handler has received so far
TerminatorsReceived == Cardinality({i \in 1..Len(sent) : Contains(sent[i].msg, LF)}) - CountLF(wire) - CountLF(inbuf)

\* C2: on a server with a readable corpus, k query lines sent one after the
\* other on one connection get exactly k responses, the i-th being the engine's answer to the i-th query, and
\* the handler does not close the connection before the client does
C2_SequentialQueries ==
  (ValidUtf8(fs.content) /\ Len(sent) >= 1 /\ AllQueryLines) =>
    /\ Len(out) <= Len(sent)
    /\ \A i \in 1..Len(out) : out[i] = EngineAnswer(QueryOf(sent[i].msg))
    /\ Quiescent => Len(out) = Len(sent)
    /\ hpc = "closed" => clientClosed

\* C3: an empty line is answered with 'ERROR: Empty request', the connection
\* stays open, and a valid query sent after it is answered
C3_EmptyRequestKeepsOpen ==
  (Len(sent) >= 1 /\ sent[1].msg = EmptyLine) =>
    /\ Len(out) >= 1 => out[1] = RESPONSE_ERROR_EMPTY
    /\ (Len(sent) = 1 /\ hpc = "closed") => clientClosed
    /\ (Len(sent) = 2 /\ sent[2].msg \in QueryLines /\ Quiescent)
         => (Len(out) = 2 /\ out[2] \in {RESPONSE_FOUND, RESPONSE_NOT_FOUND})

\* C4: MAX_PAYLOAD_SIZE bytes without a terminator are answered with
\* 'ERROR: Payload too large' and nothing else, are never searched, and the
\* connection is closed, however the bytes are split into chunks
C4_PayloadTooLarge ==
  (Len(sent) >= 1 /\ sent[1].msg = Filler) =>
    /\ Len(searched) = 0
    /\ Len(out) >= 1 => (out = << RESPONSE_ERROR_PAYLOAD >> /\ hpc = "closed")
    /\ (Len(wire) = 0 /\ Len(inbuf) = 0) => Len(out) >= 1

\* C5: the handler passes nothing to the engine, and writes no search
\* response, for bytes whose line terminator it has not received
C5_NoSearchWithoutTerminator ==
  /\ Len(searched) <= TerminatorsReceived
  /\ Cardinality({i \in 1..Len(out) : out[i] \in {RESPONSE_FOUND, RESPONSE_NOT_FOUND}}) <= TerminatorsReceived

\* C6: a line that is not valid UTF-8 is answered with 'ERROR: Invalid
\* character encoding' and the handler terminates the connection
C6_InvalidEncodingTerminates ==
  (Len(sent) >= 1 /\ sent[1].msg = InvalidLine /\ Len(out) >= 1) =>
    (out[1] = RESPONSE_ERROR_ENCODING /\ hpc = "closed")

\* C10: a server configured case-insensitive answers 'STRING EXISTS' to
\* every case variant of a corpus line, lines with upper-case letters
\* included
C10_CaseInsensitiveServer ==
  (/\ ~cfg.case_sensitive
   /\ Len(sent) >= 1
   /\ sent[1].split = 0
   /\ sent[1].msg \in QueryLines
   /\ CaseVariantOfLine(fs.content, QueryOf(sent[1].msg))
   /\ Len(out) >= 1)
    => out[1] = RESPONSE_FOUND

\* the query of a padded line: the line without its terminator and without
\* the CR and NUL bytes before it
PaddedQueryOf(msg) == RStripSet(QueryOf(msg), {CR, NUL})

\* C26: a request made of a corpus line, CR and/or NUL bytes and the
\* terminator is answered 'STRING EXISTS' (on a case-sensitive server whose
\* engine is not SimpleSearch, which C1 and C10 set apart)
C26_TrailingCrNulStripped ==
  (/\ cfg.case_sensitive
   /\ cfg.search_algorithm # "simple"
   /\ Len(sent) >= 1
   /\ sent[1].msg \in PaddedLines
   /\ PaddedQueryOf(sent[1].msg) \in CorpusLines(fs.content)
   /\ Len(out) >= 1)
    => out[1] = RESPONSE_FOUND

\* C28: the engine a server runs is of the class its algorithm identifier
\* names, for each of the ten identifiers, and a case-sensitive server
\* answers a query line that is a line of its corpus and arrives in one
\* segment with 'STRING EXISTS'
C28_EveryAlgorithmServes ==
  /\ eng.algo # "none" => eng.algo = cfg.search_algorithm
  /\ (/\ cfg.case_sensitive
      /\ ValidUtf8(fs.content)
      /\ Len(sent) >= 1
      /\ sent[1].split = 0
      /\ sent[1].msg \in QueryLines
      /\ QueryOf(sent[1].msg) \in CorpusLines(fs.content)
      /\ Len(out) >= 1)
       => out[1] = RESPONSE_FOUND

\* the engine classes whose read of the corpus fails on bytes that are not
\* UTF-8 (the others decode with errors='replace')
StrictDecoders == {"inmemory", "hash", "bloom", "boyermoore"}

\* C19: with reread enabled, a query that is answered while the engine
\* cannot read the corpus gets the internal-error line, whatever the engine
C19_UnreadableCorpusInternalError ==
  (/\ cfg.reread_on_query
   /\ AlgorithmClass(impl, cfg.search_algorithm) \in StrictDecoders
   /\ ~ValidUtf8(fs.content)
   /\ Len(sent) = 1 /\ sent[1].msg \in QueryLines
   /\ Len(wire) = 0 /\ Len(inbuf) = 0 /\ Len(data) = 0
   /\ Len(out) > 0)
    => out[1] = RESPONSE_ERROR_INTERNAL

\* the handler waits in its read and nothing from the client is under way
SilentClient == hpc = "recv" /\ Len(wire) = 0 /\ Len(inbuf) = 0 /\ ~clientClosed

\* C20: a handler whose client sends nothing (or has stopped in the middle
\* of a line) does not wait forever: unless the client sends or closes,
\* the read times out and the connection is closed, with TLS and without
C20_SilentClientTimesOut == SilentClient ~> (hpc \in {"closed", "timedout"} \/ Len(wire) > 0 \/ clientClosed)

====
